---- MODULE Spec2Model ----
(***************************************************************************)
(* A model of the pieces of the cc CLI that carry design decisions:        *)
(*   - the AI explanation dispatcher (internal/explain): callAI,           *)
(*     callClaude, callOllama, isOllamaRunning;                            *)
(*   - the template engine (internal/terraform/templates.go):              *)
(*     LoadProviderTemplate and the five block generators.                 *)
(*   - the scaffolding built on it (internal/terraform/terraform.go):      *)
(*     scaffoldTerraformDir and scaffoldMultiProviderResource.             *)
(*   - the commands that drive external tools (internal/git,               *)
(*     terraform check) and the package setup.                             *)
(* Each piece has its own specification (SpecAI, SpecTemplate,             *)
(* SpecScaffold, SpecShell, SpecSetup); the variables of the other pieces  *)
(* stay at their initial values.                                           *)
(***************************************************************************)
EXTENDS Integers, Sequences, FiniteSets, TLC

VARIABLES
    \* ---- dispatcher (internal/explain) ----
    forceLocal,   \* the --local flag handed to callAI
    apiKey,       \* os.Getenv("ANTHROPIC_API_KEY")
    ctxDone,      \* the caller's context is cancelled or past its deadline
    pc,           \* position of the one callAI invocation
    calls,        \* the external calls issued so far, in order
    stdout,       \* the lines callAI printed so far
    remote,       \* attempt state of the remote provider (Claude)
    local,        \* attempt state of the local provider (Ollama)
    message,      \* what client.Messages.New answered
    probeResp,    \* what GET /api/tags answered
    genResp,      \* what POST /api/generate answered
    claudeRet,    \* what callClaude returned: [response, err]
    ollamaRet,    \* what callOllama returned: [response, err]
    ret,          \* what callAI returned: [response, err]
    \* ---- template engine (internal/terraform/templates.go) ----
    configPath,      \* LoadProviderTemplate's configPath argument ("" is NoPath)
    provider,        \* LoadProviderTemplate's provider argument
    home,            \* $HOME
    fs,              \* the files: path -> state; a path outside it is missing
    tpc,             \* "start", then "loaded" or "failed"
    templateConfig,  \* the *ProviderTemplateConfig LoadProviderTemplate returned
    loadErr,         \* the error LoadProviderTemplate returned
    out,             \* the block generated last: [gen, arg, text]
    \* ---- scaffolding (internal/terraform/terraform.go) ----
    cmd,          \* "init-dir": scaffoldTerraformDir; "new": scaffoldMultiProviderResource
    basePath,     \* the dirPath of init-dir, the basePath of new, relative to the cwd
    providers,    \* the provider list (for init-dir, the one provider)
    configBase,   \* the --config flag: a file for init-dir, a directory for new
    spc,          \* position of the scaffold
    idx,          \* the element of providers the loop is at
    dirs,         \* the directories created so far
    disk,         \* the files written so far: path -> content
    toWrite,      \* scaffoldTerraformDir's map `files`: name -> content
    scaffoldErr,  \* the error the command's function returned
    \* ---- commands that run tools (internal/git, terraform check) ----
    tool,           \* "git branch", "git rebase" or "terraform check"
    argv,           \* c.Args(): the arguments after the command's name
    pathFlag,       \* c.String("path"), relative to the cwd
    gpc,            \* position in the command's Action
    ran,            \* the commands run so far: [argv, ok], in order
    defaultBranch,  \* what getDefaultBranch returned
    currentBranch,  \* what getCurrentBranch returned
    hasChanges,     \* what hasUncommittedChanges returned
    deferred,       \* the deferred calls of the Action, last one first
    safePath,       \* what validatePath returned
    toolErr,        \* the error the Action returned
    \* ---- setup (package setup) ----
    brewFound,     \* whether `brew --version` runs
    world,         \* what the machine holds of each required package
    setupPc,       \* position in the Action of setup
    packageInfos,  \* the PackageInfo list the survey built
    asked,         \* the confirmations asked so far: [category, response, err]
    executed,      \* the changes made so far: [action, category, pkg, ok]
    todo,          \* what is left of the list the current loop ranges over
    setupErr       \* the error the Action returned

aiVars == <<forceLocal, apiKey, ctxDone, pc, calls, stdout, remote, local,
            message, probeResp, genResp, claudeRet, ollamaRet, ret>>

tplVars == <<configPath, provider, home, fs, tpc, templateConfig, loadErr, out>>

scVars == <<cmd, basePath, providers, configBase, spc, idx, dirs, disk, toWrite, scaffoldErr>>

shVars == <<tool, argv, pathFlag, gpc, ran, defaultBranch, currentBranch, hasChanges,
            deferred, safePath, toolErr>>

suVars == <<brewFound, world, setupPc, packageInfos, asked, executed, todo, setupErr>>

vars == <<aiVars, tplVars, scVars, shVars, suVars>>

\* no scaffold command is running
ScaffoldOff ==
    /\ cmd = "off"
    /\ basePath = <<>>
    /\ providers = <<>>
    /\ configBase = <<>>
    /\ spc = "off"
    /\ idx = 0
    /\ dirs = {}
    /\ disk = <<>>
    /\ toWrite = <<>>
    /\ scaffoldErr = <<>>

ShellOff ==
    /\ tool = "off"
    /\ argv = <<>>
    /\ pathFlag = <<>>
    /\ gpc = "off"
    /\ ran = <<>>
    /\ defaultBranch = ""
    /\ currentBranch = ""
    /\ hasChanges = FALSE
    /\ deferred = <<>>
    /\ safePath = <<>>
    /\ toolErr = <<>>

SetupOff ==
    /\ brewFound = FALSE
    /\ world = <<>>
    /\ setupPc = "off"
    /\ packageInfos = <<>>
    /\ asked = <<>>
    /\ executed = <<>>
    /\ todo = <<>>
    /\ setupErr = <<>>

(***************************************************************************)
(* Values.  An error is the chain of its messages, outermost first (what   *)
(* fmt.Errorf("...: %w", err) builds); the nil error is the empty chain.   *)
(***************************************************************************)
Nil == <<>>

\* bound: the number of content blocks a remote reply may carry
MaxContent == 2

StatusOK == 200

RemoteTexts == {"", "remote text A", "remote text B"}
LocalTexts == {"", "local text A", "local text B"}

\* transport-level failures of an HTTP round trip while the context is live
HttpErrors == {<<"connection refused">>, <<"timeout">>}
CtxError == <<"context canceled">>

StatusCodes == {StatusOK, 404, 500}

NoRet == [response |-> "", err |-> <<"not returned">>]
NoCall == <<"not called">>
NoMessage == [err |-> NoCall, Content |-> <<>>]
NoBody == [json |-> FALSE, response |-> ""]
NoProbe == [err |-> NoCall, StatusCode |-> 0]
NoGenerate == [err |-> NoCall, StatusCode |-> 0, body |-> NoBody]

\* all sequences over S of length 0..n
RECURSIVE SeqsUpTo(_, _)
SeqsUpTo(S, n) ==
    IF n = 0 THEN {<<>>}
    ELSE LET shorter == SeqsUpTo(S, n - 1)
         IN shorter \cup {Append(s, x) : s \in {t \in shorter : Len(t) = n - 1}, x \in S}

(***************************************************************************)
(* The outcomes of the external calls.  With the context done every call   *)
(* made with it fails; otherwise the service decides.                      *)
(***************************************************************************)
\* client.Messages.New: an error, or a message with 0..MaxContent content blocks
MessagesNew(done) ==
    IF done THEN {[err |-> CtxError, Content |-> <<>>]}
    ELSE {[err |-> e, Content |-> <<>>] :
              e \in HttpErrors \cup {<<"status 401">>, <<"status 529">>, <<"malformed response">>}}
         \cup {[err |-> Nil, Content |-> c] : c \in SeqsUpTo(RemoteTexts, MaxContent)}

\* a mutation of ProbeDo: the probe request is built without the context
ProbeDoWithoutContext(done) ==
    {[err |-> e, StatusCode |-> 0] : e \in HttpErrors}
    \cup {[err |-> Nil, StatusCode |-> s] : s \in StatusCodes}

\* GET /api/tags through a client with a 2 s timeout
ProbeDo(done) ==
    IF done THEN {[err |-> CtxError, StatusCode |-> 0]}
    ELSE {[err |-> e, StatusCode |-> 0] : e \in HttpErrors}
         \cup {[err |-> Nil, StatusCode |-> s] : s \in StatusCodes}

\* a reply body: not JSON, or a JSON object with its response field
\* (a missing field decodes to the empty string)
Bodies == {NoBody}
          \cup {[json |-> TRUE, response |-> t] : t \in LocalTexts}

\* POST /api/generate through a client with a 5 min timeout
GenerateDo(done) ==
    IF done THEN {[err |-> CtxError, StatusCode |-> 0, body |-> NoBody]}
    ELSE {[err |-> e, StatusCode |-> 0, body |-> NoBody] : e \in HttpErrors}
         \cup {[err |-> Nil, StatusCode |-> s, body |-> b] : s \in StatusCodes, b \in Bodies}

(***************************************************************************)
(* callClaude, after client.Messages.New answered with m.                  *)
(***************************************************************************)
callClaude(m) ==
    IF m.err # Nil THEN [response |-> "", err |-> <<"claude api error">> \o m.err]
    ELSE IF Len(m.Content) > 0 THEN [response |-> m.Content[1], err |-> Nil]
    ELSE [response |-> "", err |-> <<"no response from claude">>]

\* a mutation of isOllamaRunning: any answer counts as running
isOllamaRunningAnyStatus(r) == r.err = Nil

(***************************************************************************)
(* isOllamaRunning, after the probe answered with r.                       *)
(***************************************************************************)
isOllamaRunning(r) ==
    IF r.err # Nil THEN FALSE ELSE r.StatusCode = StatusOK

ErrNotRunning == <<"ollama is not running. Please start it with: ollama serve">>

\* a mutation of callOllamaGenerate: the empty-response check is missing
callOllamaGenerateNoEmptyCheck(r) ==
    IF r.err # Nil THEN [response |-> "", err |-> <<"failed to send request to ollama">> \o r.err]
    ELSE IF r.StatusCode # StatusOK THEN [response |-> "", err |-> <<"ollama returned status">>]
    ELSE IF ~r.body.json THEN [response |-> "", err |-> <<"failed to decode response">>]
    ELSE [response |-> r.body.response, err |-> Nil]

(***************************************************************************)
(* callOllama from the generation request on, after it answered with r.    *)
(***************************************************************************)
callOllamaGenerate(r) ==
    IF r.err # Nil THEN [response |-> "", err |-> <<"failed to send request to ollama">> \o r.err]
    ELSE IF r.StatusCode # StatusOK THEN [response |-> "", err |-> <<"ollama returned status">>]
    ELSE IF ~r.body.json THEN [response |-> "", err |-> <<"failed to decode response">>]
    ELSE IF r.body.response = "" THEN [response |-> "", err |-> <<"empty response from ollama">>]
    ELSE [response |-> r.body.response, err |-> Nil]

\* a mutation of TryRemote: the flag is not consulted
TryRemoteIgnoringFlag(fl, key) == key # ""

\* callAI's guard for trying the remote provider first
TryRemote(fl, key) == ~fl /\ key # ""

\* a mutation of ClaudeSettles: the remote result is returned whatever its error
ClaudeSettlesAlways(r) == TRUE

\* a mutation of ClaudeSettles: the early return is missing
ClaudeSettlesNever(r) == FALSE

\* callAI returns the remote result r at once exactly when its error is nil
ClaudeSettles(r) == r.err = Nil

\* a mutation of callAIFallback: the remote error is joined to the local result
callAIFallbackJoined(cr, o) ==
    IF cr = NoRet THEN o ELSE [response |-> o.response, err |-> cr.err \o o.err]

\* what callAI returns on the local path: callOllama's result o as it is;
\* the remote result cr (NoRet when the remote call was skipped) is dropped
callAIFallback(cr, o) == o

(***************************************************************************)
(* The dispatcher's steps.                                                 *)
(***************************************************************************)
InitAI ==
    /\ forceLocal \in BOOLEAN
    /\ apiKey \in {"", "sk-ant-key"}
    /\ ctxDone \in BOOLEAN
    /\ pc = "callAI"
    /\ calls = <<>>
    /\ stdout = <<>>
    /\ remote = "NotAttempted"
    /\ local = "NotAttempted"
    /\ message = NoMessage
    /\ probeResp = NoProbe
    /\ genResp = NoGenerate
    /\ claudeRet = NoRet
    /\ ollamaRet = NoRet
    /\ ret = NoRet
    /\ configPath = <<>>
    /\ provider = "aws"
    /\ home = ""
    /\ fs = <<>>
    /\ tpc = "off"
    /\ templateConfig = <<>>
    /\ loadErr = Nil
    /\ out = [gen |-> "none", arg |-> "", text |-> <<>>]
    /\ ScaffoldOff
    /\ ShellOff
    /\ SetupOff

\* callAI's entry: choose the first provider
CallAI ==
    /\ pc = "callAI"
    /\ IF TryRemote(forceLocal, apiKey)
       THEN /\ stdout' = Append(stdout, "Using Claude API...")
            /\ pc' = "callClaude"
       ELSE /\ stdout' = Append(stdout, "Using local Ollama...")
            /\ pc' = "callOllama"
    /\ UNCHANGED <<forceLocal, apiKey, ctxDone, calls, remote, local,
                   message, probeResp, genResp, claudeRet, ollamaRet, ret>>
    /\ UNCHANGED <<tplVars, scVars, shVars, suVars>>

\* callClaude and what callAI does with its result
CallClaude ==
    /\ pc = "callClaude"
    /\ \E m \in MessagesNew(ctxDone) :
         LET r == callClaude(m) IN
         /\ calls' = Append(calls, "claude messages")
         /\ message' = m
         /\ claudeRet' = r
         /\ remote' = IF r.err = Nil THEN "Succeeded" ELSE "Failed"
         /\ IF ClaudeSettles(r)
            THEN /\ ret' = r
                 /\ pc' = "done"
                 /\ UNCHANGED stdout
            ELSE /\ stdout' = stdout \o <<"Claude API failed", "Falling back to local Ollama...",
                                          "Using local Ollama...">>
                 /\ pc' = "callOllama"
                 /\ UNCHANGED ret
    /\ UNCHANGED <<forceLocal, apiKey, ctxDone, local, probeResp, genResp, ollamaRet>>
    /\ UNCHANGED <<tplVars, scVars, shVars, suVars>>

\* callOllama's reachability probe
CallOllamaProbe ==
    /\ pc = "callOllama"
    /\ \E r \in ProbeDo(ctxDone) :
         /\ calls' = Append(calls, "GET /api/tags")
         /\ probeResp' = r
         /\ IF ~isOllamaRunning(r)
            THEN /\ ollamaRet' = [response |-> "", err |-> ErrNotRunning]
                 /\ ret' = callAIFallback(claudeRet, [response |-> "", err |-> ErrNotRunning])
                 /\ local' = "Failed"
                 /\ pc' = "done"
            ELSE /\ pc' = "generate"
                 /\ UNCHANGED <<ollamaRet, ret, local>>
    /\ UNCHANGED <<forceLocal, apiKey, ctxDone, stdout, remote, message, genResp, claudeRet>>
    /\ UNCHANGED <<tplVars, scVars, shVars, suVars>>

\* callOllama's generation request; callAI returns its result as it is
CallOllamaGenerate ==
    /\ pc = "generate"
    /\ \E r \in GenerateDo(ctxDone) :
         LET o == callOllamaGenerate(r) IN
         /\ calls' = Append(calls, "POST /api/generate")
         /\ genResp' = r
         /\ ollamaRet' = o
         /\ ret' = callAIFallback(claudeRet, o)
         /\ local' = IF o.err = Nil THEN "Succeeded" ELSE "Failed"
         /\ pc' = "done"
    /\ UNCHANGED <<forceLocal, apiKey, ctxDone, stdout, remote, message, probeResp, claudeRet>>
    /\ UNCHANGED <<tplVars, scVars, shVars, suVars>>

\* the caller cancels the context, or its deadline passes (callAI takes any
\* context; cmd/cc/main.go itself passes context.Background())
Cancel ==
    /\ pc # "done"
    /\ ~ctxDone
    /\ ctxDone' = TRUE
    /\ UNCHANGED <<forceLocal, apiKey, pc, calls, stdout, remote, local,
                   message, probeResp, genResp, claudeRet, ollamaRet, ret>>
    /\ UNCHANGED <<tplVars, scVars, shVars, suVars>>

NextAI ==
    \/ CallAI
    \/ CallClaude
    \/ CallOllamaProbe
    \/ CallOllamaGenerate
    \/ Cancel

SpecAI == InitAI /\ [][NextAI]_vars

(***************************************************************************)
(* The template engine (internal/terraform/templates.go).                  *)
(*                                                                         *)
(* A Go string is the sequence of its pieces; a piece is one of the        *)
(* characters the formatting verbs treat specially (the double quote, the  *)
(* backslash, the newline) or a run of other characters.  The empty string *)
(* is the empty sequence.  A map is a function on its key set, and the     *)
(* order a range loop visits it in is an input of the generator.           *)
(***************************************************************************)
Empty == <<>>
Q == "\""
BS == "\\"
NL == "\n"

\* bounds: the lengths of the lists and the size of the tfvars map of a template
MaxVars == 2
MaxOutputs == 2
MaxData == 2
MaxTfvars == 2

RECURSIVE Flatten(_)
Flatten(ss) == IF ss = <<>> THEN <<>> ELSE Head(ss) \o Flatten(Tail(ss))

\* strings.Join(lines, "\n")
RECURSIVE Join(_)
Join(lines) ==
    IF lines = <<>> THEN <<>>
    ELSE IF Len(lines) = 1 THEN lines[1]
    ELSE lines[1] \o <<NL>> \o Join(Tail(lines))

\* the body of a %q verb: quote, backslash and newline are escaped
EscapePiece(p) ==
    IF p = Q THEN <<BS, Q>>
    ELSE IF p = BS THEN <<BS, BS>>
    ELSE IF p = NL THEN <<BS, "n">>
    ELSE <<p>>

\* a mutation of Quote: the string between quotes as it is, like "%s"
QuoteNoEscape(str) == <<Q>> \o str \o <<Q>>

\* fmt's %q of a string
Quote(str) == <<Q>> \o Flatten([i \in 1..Len(str) |-> EscapePiece(str[i])]) \o <<Q>>

\* the orders a range loop may visit the keys of a map in
Perms(S) == {o \in [1..Cardinality(S) -> S] : \A i, j \in 1..Cardinality(S) : o[i] = o[j] => i = j}

\* &ProviderTemplateConfig{}
ZeroConfig ==
    [Provider |-> [Region |-> Empty, Profile |-> Empty, Credentials |-> Empty,
                   Tags |-> <<>>, Extra |-> <<>>],
     Variables |-> <<>>, Outputs |-> <<>>, Data |-> <<>>, Tfvars |-> <<>>]

\* a *ProviderTemplateConfig: nil, or a pointer to a config
NilConfig == <<>>
Ptr(c) == <<c>>

(***************************************************************************)
(* The file system and environment LoadProviderTemplate reads.             *)
(***************************************************************************)
NoPath == <<>>
Missing == [kind |-> "missing", yaml |-> FALSE, doc |-> ZeroConfig]
\* os.Stat fails with an error other than not-exist (no search permission on
\* a directory of the path, a component that is not a directory)
StatFails == [kind |-> "statfails", yaml |-> FALSE, doc |-> ZeroConfig]
\* the path exists and cannot be read (no read permission, a directory)
Unreadable == [kind |-> "unreadable", yaml |-> FALSE, doc |-> ZeroConfig]
\* a readable file whose content yaml.Unmarshal rejects
BadYaml == [kind |-> "file", yaml |-> FALSE, doc |-> ZeroConfig]
\* a readable file whose content yaml.Unmarshal decodes to doc
YamlFile(doc) == [kind |-> "file", yaml |-> TRUE, doc |-> doc]

FsAt(files, path) == IF path \in DOMAIN files THEN files[path] ELSE Missing

\* os.UserHomeDir: fails when $HOME is empty or unset
UserHomeDir(homeEnv) ==
    IF homeEnv = "" THEN [dir |-> "", err |-> <<"$HOME is not defined">>]
    ELSE [dir |-> homeEnv, err |-> Nil]

\* a mutation of DefaultPath: the provider is not part of the file name
DefaultPathFixedName(homeDir, prov) == <<homeDir, ".cc", "terraform-templates", "aws", ".yaml">>

\* filepath.Join(homeDir, ".cc", "terraform-templates", provider + ".yaml")
DefaultPath(homeDir, prov) == <<homeDir, ".cc", "terraform-templates", prov, ".yaml">>

\* os.Stat(path), by the class of its error
Stat(files, path) ==
    LET f == FsAt(files, path) IN
    IF f.kind = "missing" THEN <<"file does not exist">>
    ELSE IF f.kind = "statfails" THEN <<"stat failed">>
    ELSE Nil

\* a mutation of IsNotExist: every stat error counts as a missing file
IsNotExistAnyError(err) == err # Nil

\* os.IsNotExist(err)
IsNotExist(err) == err = <<"file does not exist">>

\* os.ReadFile(path)
ReadFile(files, path) ==
    LET f == FsAt(files, path) IN
    IF f.kind = "file" THEN [data |-> f, err |-> Nil]
    ELSE [data |-> Missing, err |-> <<"read failed">>]

\* yaml.Unmarshal(data, &config)
Unmarshal(data) ==
    IF data.yaml THEN [config |-> data.doc, err |-> Nil]
    ELSE [config |-> ZeroConfig, err |-> <<"yaml: unmarshal error">>]

\* LoadProviderTemplate(configPath, provider), in the environment (homeEnv, files)
LoadProviderTemplate(cfgPath, prov, homeEnv, files) ==
    LET h == UserHomeDir(homeEnv) IN
    IF cfgPath = NoPath /\ h.err # Nil
    THEN [config |-> NilConfig, err |-> <<"failed to get home directory">> \o h.err]
    ELSE LET path == IF cfgPath = NoPath THEN DefaultPath(h.dir, prov) ELSE cfgPath IN
         IF IsNotExist(Stat(files, path))
         THEN [config |-> Ptr(ZeroConfig), err |-> Nil]
         ELSE LET rd == ReadFile(files, path) IN
              IF rd.err # Nil
              THEN [config |-> NilConfig, err |-> <<"failed to read config file">> \o rd.err]
              ELSE LET y == Unmarshal(rd.data) IN
                   IF y.err # Nil
                   THEN [config |-> NilConfig, err |-> <<"failed to parse config file">> \o y.err]
                   ELSE [config |-> Ptr(y.config), err |-> Nil]

(***************************************************************************)
(* The five generators.  Each returns the text of one block.               *)
(***************************************************************************)
Has(m, k) == k \in DOMAIN m
Opt(cond, line) == IF cond THEN <<line>> ELSE <<>>

\* `  name = "%s"`
Assign(name, value) == <<name, Q>> \o value \o <<Q>>

\* a mutation of CommonLines: the profile is written before the region
CommonLinesProfileFirst(c) ==
    Opt(c.Provider.Profile # Empty, Assign("  profile = ", c.Provider.Profile))
    \o Opt(c.Provider.Region # Empty, Assign("  region = ", c.Provider.Region))
    \o Opt(c.Provider.Credentials # Empty,
           <<"  shared_credentials_files = [", Q>> \o c.Provider.Credentials \o <<Q, "]">>)

\* the lines for region, profile and credentials, each only when non-empty
CommonLines(c) ==
    Opt(c.Provider.Region # Empty, Assign("  region = ", c.Provider.Region))
    \o Opt(c.Provider.Profile # Empty, Assign("  profile = ", c.Provider.Profile))
    \o Opt(c.Provider.Credentials # Empty,
           <<"  shared_credentials_files = [", Q>> \o c.Provider.Credentials \o <<Q, "]">>)

\* a mutation of AzureLines: the features block does not depend on the region
AzureLinesFeaturesAlways(c) ==
    << <<"  features {}">> >>
    \o Opt(Has(c.Provider.Extra, "subscription_id"),
           Assign("  subscription_id = ", c.Provider.Extra["subscription_id"]))
    \o Opt(Has(c.Provider.Extra, "tenant_id"),
           Assign("  tenant_id = ", c.Provider.Extra["tenant_id"]))

\* the lines added for providerName == "azurerm"
AzureLines(c) ==
    Opt(c.Provider.Region # Empty, <<"  features {}">>)
    \o Opt(Has(c.Provider.Extra, "subscription_id"),
           Assign("  subscription_id = ", c.Provider.Extra["subscription_id"]))
    \o Opt(Has(c.Provider.Extra, "tenant_id"),
           Assign("  tenant_id = ", c.Provider.Extra["tenant_id"]))

\* a mutation of GoogleLines: a key with an empty value gives no line
GoogleLinesNonEmptyOnly(c) ==
    Opt(Has(c.Provider.Extra, "project") /\ c.Provider.Extra["project"] # Empty,
        Assign("  project = ", c.Provider.Extra["project"]))
    \o Opt(Has(c.Provider.Extra, "region") /\ c.Provider.Extra["region"] # Empty,
           Assign("  region = ", c.Provider.Extra["region"]))
    \o Opt(Has(c.Provider.Extra, "zone") /\ c.Provider.Extra["zone"] # Empty,
           Assign("  zone = ", c.Provider.Extra["zone"]))

\* the lines added for providerName == "google"
GoogleLines(c) ==
    Opt(Has(c.Provider.Extra, "project"),
        Assign("  project = ", c.Provider.Extra["project"]))
    \o Opt(Has(c.Provider.Extra, "region"),
           Assign("  region = ", c.Provider.Extra["region"]))
    \o Opt(Has(c.Provider.Extra, "zone"),
           Assign("  zone = ", c.Provider.Extra["zone"]))

\* GenerateProviderBlock(providerName)
GenerateProviderBlock(c, providerName) ==
    Join(<< <<"provider ", Q, providerName, Q, " {">> >>
         \o CommonLines(c)
         \o (IF providerName = "azurerm" THEN AzureLines(c) ELSE <<>>)
         \o (IF providerName = "google" THEN GoogleLines(c) ELSE <<>>)
         \o << <<"}">> >>)

VariablesPlaceholder ==
    <<"# Variable declarations", "\n",
      "# Example:", "\n",
      "# variable ", "\"", "example", "\"", " {", "\n",
      "#   description = ", "\"", "Example variable", "\"", "\n",
      "#   type        = string", "\n",
      "# }", "\n">>

\* a mutation of VariableStanza: the type is written as a quoted string
VariableStanzaQuotedType(v) ==
    << Empty, <<"variable ", Q>> \o v.Name \o <<Q, " {">> >>
    \o Opt(v.Description # Empty, <<"  description = ">> \o Quote(v.Description))
    \o Opt(v.Type # Empty, <<"  type        = ">> \o Quote(v.Type))
    \o Opt(v.Default # Empty, <<"  default     = ">> \o v.Default)
    \o << <<"}">> >>

\* the lines of one variable stanza
VariableStanza(v) ==
    << Empty, <<"variable ", Q>> \o v.Name \o <<Q, " {">> >>
    \o Opt(v.Description # Empty, <<"  description = ">> \o Quote(v.Description))
    \o Opt(v.Type # Empty, <<"  type        = ">> \o v.Type)
    \o Opt(v.Default # Empty, <<"  default     = ">> \o v.Default)
    \o << <<"}">> >>

\* a mutation of GenerateVariablesBlock: the loop starts at the second entry
GenerateVariablesBlockSkipsFirst(c) ==
    IF Len(c.Variables) = 0 THEN VariablesPlaceholder
    ELSE Join(<< <<"# Variable declarations">> >>
              \o Flatten([i \in 1..(Len(c.Variables) - 1) |-> VariableStanza(c.Variables[i + 1])]))

\* GenerateVariablesBlock()
GenerateVariablesBlock(c) ==
    IF Len(c.Variables) = 0 THEN VariablesPlaceholder
    ELSE Join(<< <<"# Variable declarations">> >>
              \o Flatten([i \in 1..Len(c.Variables) |-> VariableStanza(c.Variables[i])]))

OutputsPlaceholder ==
    <<"# Output declarations", "\n",
      "# Example:", "\n",
      "# output ", "\"", "example", "\"", " {", "\n",
      "#   description = ", "\"", "Example output", "\"", "\n",
      "#   value       = var.example", "\n",
      "# }", "\n">>

\* the lines of one output stanza
OutputStanza(o) ==
    << Empty, <<"output ", Q>> \o o.Name \o <<Q, " {">> >>
    \o Opt(o.Description # Empty, <<"  description = ">> \o Quote(o.Description))
    \o Opt(o.Value # Empty, <<"  value       = ">> \o o.Value)
    \o << <<"}">> >>

\* GenerateOutputsBlock()
GenerateOutputsBlock(c) ==
    IF Len(c.Outputs) = 0 THEN OutputsPlaceholder
    ELSE Join(<< <<"# Output declarations">> >>
              \o Flatten([i \in 1..Len(c.Outputs) |-> OutputStanza(c.Outputs[i])]))

DataPlaceholderAws ==
    <<"# Data source declarations", "\n",
      "# Example:", "\n",
      "# data ", "\"", "aws_vpc", "\"", " ", "\"", "example", "\"", " {", "\n",
      "#   filter {", "\n",
      "#     name   = ", "\"", "tag:Name", "\"", "\n",
      "#     values = [", "\"", "example-vpc", "\"", "]", "\n",
      "#   }", "\n",
      "# }", "\n">>

DataPlaceholderAzure ==
    <<"# Data source declarations", "\n",
      "# Example:", "\n",
      "# data ", "\"", "azurerm_resource_group", "\"", " ", "\"", "example", "\"", " {", "\n",
      "#   name = ", "\"", "example-rg", "\"", "\n",
      "# }", "\n">>

DataPlaceholderGcp ==
    <<"# Data source declarations", "\n",
      "# Example:", "\n",
      "# data ", "\"", "google_project", "\"", " ", "\"", "example", "\"", " {", "\n",
      "#   project_id = ", "\"", "example-project", "\"", "\n",
      "# }", "\n">>

DataPlaceholderDefault ==
    <<"# Data source declarations", "\n">>

\* a mutation of DataPlaceholder: the cases are the provider block's identifiers
DataPlaceholderByIdentifier(prov) ==
    CASE prov = "aws" -> DataPlaceholderAws
      [] prov = "azurerm" -> DataPlaceholderAzure
      [] prov = "google" -> DataPlaceholderGcp
      [] OTHER -> DataPlaceholderDefault

\* the switch of GenerateDataBlock over the provider
DataPlaceholder(prov) ==
    CASE prov = "aws" -> DataPlaceholderAws
      [] prov = "azure" -> DataPlaceholderAzure
      [] prov = "gcp" -> DataPlaceholderGcp
      [] OTHER -> DataPlaceholderDefault

\* the lines of one data stanza, its config map visited in the order ord
DataStanza(d, ord) ==
    Opt(d.Comment # Empty, <<"# ">> \o d.Comment)
    \o << Empty, <<"data ", Q>> \o d.Type \o <<Q, " ", Q>> \o d.Name \o <<Q, " {">> >>
    \o [i \in 1..Len(ord) |-> <<"  ", ord[i], " = ">> \o d.Config[ord[i]]]
    \o << <<"}">> >>

\* GenerateDataBlock(provider); ords[i] is the order the i-th entry's config is visited in
GenerateDataBlock(c, prov, ords) ==
    IF Len(c.Data) = 0 THEN DataPlaceholder(prov)
    ELSE Join(<< <<"# Data source declarations">> >>
              \o Flatten([i \in 1..Len(c.Data) |-> DataStanza(c.Data[i], ords[i])]))

TfvarsPlaceholder ==
    <<"# Variable assignments", "\n",
      "# Example:", "\n",
      "# example = ", "\"", "value", "\"", "\n">>

\* a mutation of GenerateTfvarsBlock: a key with an empty value gives no line
GenerateTfvarsBlockSkipsBlank(c, ord) ==
    IF Cardinality(DOMAIN c.Tfvars) = 0 THEN TfvarsPlaceholder
    ELSE Join(<< <<"# Variable assignments">> >>
              \o Flatten([i \in 1..Len(ord) |->
                             IF c.Tfvars[ord[i]] = Empty THEN <<>>
                             ELSE << <<ord[i], " = ">> \o Quote(c.Tfvars[ord[i]]) >>]))

\* GenerateTfvarsBlock(); ord is the order the tfvars map is visited in
GenerateTfvarsBlock(c, ord) ==
    IF Cardinality(DOMAIN c.Tfvars) = 0 THEN TfvarsPlaceholder
    ELSE Join(<< <<"# Variable assignments">> >>
              \o [i \in 1..Len(ord) |-> <<ord[i], " = ">> \o Quote(c.Tfvars[ord[i]])])

\* the visiting orders of the config maps of a data list
DataOrders(data) ==
    {ords \in [1..Len(data) -> UNION {Perms(DOMAIN data[i].Config) : i \in 1..Len(data)}] :
        \A i \in 1..Len(data) : ords[i] \in Perms(DOMAIN data[i].Config)}

(***************************************************************************)
(* The templates the model loads.                                          *)
(***************************************************************************)
ExtraKeys == {"subscription_id", "tenant_id", "project", "region", "zone"}

ExtraValue(k) ==
    CASE k = "subscription_id" -> <<"X">>
      [] k = "tenant_id" -> <<"Y">>
      [] k = "project" -> <<"my-project">>
      [] k = "region" -> <<"europe-west1">>
      [] k = "zone" -> <<"europe-west1-b">>

\* extra mappings: any set of the known keys, with values set or all blank
Extras ==
    {[k \in K |-> ExtraValue(k)] : K \in SUBSET ExtraKeys}
    \cup {[k \in K |-> Empty] : K \in SUBSET ExtraKeys}

ProviderSections ==
    [Region : {Empty, <<"us-east-1">>},
     Profile : {Empty, <<"dev">>},
     Credentials : {Empty, <<"~/.aws/credentials">>},
     Tags : {<<>>},
     Extra : Extras]

SampleProvider ==
    [Region |-> <<"westeurope">>, Profile |-> Empty, Credentials |-> Empty,
     Tags |-> [k \in {"team"} |-> <<"platform">>],
     Extra |-> [k \in {"subscription_id", "region"} |-> ExtraValue(k)]]

VarPool ==
    {[Name |-> <<"region">>, Description |-> <<"Deployment region">>,
      Type |-> <<"string">>, Default |-> <<Q, "us-east-1", Q>>],
     [Name |-> <<"instance_count">>, Description |-> Empty,
      Type |-> <<"number">>, Default |-> Empty],
     [Name |-> <<"region">>, Description |-> <<"Deployment region">>,
      Type |-> <<"string", NL, "  default     = ", Q, "us-east-1", Q>>, Default |-> Empty],
     [Name |-> <<"note">>, Description |-> <<"the ", Q, "owner", Q, " tag", NL, "see C:", BS, "notes">>,
      Type |-> Empty, Default |-> Empty]}

OutputPool ==
    {[Name |-> <<"vpc_id">>, Description |-> <<"ID of the VPC">>, Value |-> <<"aws_vpc.main.id">>],
     [Name |-> <<"arn">>, Description |-> Empty, Value |-> <<"aws_vpc.main.arn">>]}

DataPool ==
    {[Type |-> <<"aws_vpc">>, Name |-> <<"main">>,
      Config |-> [k \in {"id", "default"} |->
                     IF k = "id" THEN <<"var.vpc_id">> ELSE <<"false">>],
      Comment |-> <<"Main VPC">>],
     [Type |-> <<"aws_caller_identity">>, Name |-> <<"current">>,
      Config |-> <<>>, Comment |-> Empty]}

TfvarKeys == {"environment", "owner", "region"}

TfvarValue(k) ==
    CASE k = "environment" -> <<"dev">>
      [] k = "owner" -> <<"team ", Q, "a", Q>>
      [] k = "region" -> Empty

TfvarMaps ==
    {[k \in K |-> TfvarValue(k)] : K \in {S \in SUBSET TfvarKeys : Cardinality(S) <= MaxTfvars}}

VariableLists == SeqsUpTo(VarPool, MaxVars)
OutputLists == SeqsUpTo(OutputPool, MaxOutputs)
DataLists == SeqsUpTo(DataPool, MaxData)

\* one non-empty sample of each section, next to the empty one
FewProviders == {ZeroConfig.Provider, SampleProvider}
FewVariables == {<<>>} \cup {<<v>> : v \in {w \in VarPool : w.Name = <<"region">>}}
FewOutputs == {<<>>} \cup {<<o>> : o \in {w \in OutputPool : w.Name = <<"arn">>}}
FewData == {<<>>} \cup {<<d>> : d \in {w \in DataPool : w.Name = <<"current">>}}
FewTfvars == {<<>>, [k \in {"environment"} |-> TfvarValue(k)]}

\* the templates: each section ranges over all its values while the others
\* range over the empty value and one sample
Configs ==
    [Provider : ProviderSections \cup FewProviders, Variables : FewVariables,
     Outputs : FewOutputs, Data : FewData, Tfvars : FewTfvars]
    \cup [Provider : FewProviders, Variables : VariableLists,
          Outputs : FewOutputs, Data : FewData, Tfvars : FewTfvars]
    \cup [Provider : FewProviders, Variables : FewVariables,
          Outputs : OutputLists, Data : FewData, Tfvars : FewTfvars]
    \cup [Provider : FewProviders, Variables : FewVariables,
          Outputs : FewOutputs, Data : DataLists, Tfvars : FewTfvars]
    \cup [Provider : FewProviders, Variables : FewVariables,
          Outputs : FewOutputs, Data : FewData, Tfvars : TfvarMaps]

\* the templates with one sample or nothing in every section
FewConfigs ==
    [Provider : FewProviders, Variables : FewVariables,
     Outputs : FewOutputs, Data : FewData, Tfvars : FewTfvars]

\* the CLI's provider names, and one it does not know
Providers == {"aws", "azure", "gcp", "oci"}
\* the identifiers of the provider block, and one more
ProviderNames == {"aws", "azurerm", "google", "oci"}

CustomPath == <<"/work/templates/custom.yaml">>
HomeDirs == {"", "/home/dev"}
Paths == {CustomPath} \cup {DefaultPath(h, pr) : h \in HomeDirs \ {""}, pr \in Providers}

\* file states whose loading is explored at every path and with every argument
FewFileStates ==
    {StatFails, Unreadable, BadYaml} \cup {YamlFile(c) : c \in {ZeroConfig} \cup (FewConfigs \ {ZeroConfig})}

(***************************************************************************)
(* One scaffold's use of the engine: load once, then render.               *)
(***************************************************************************)
\* a mutation of ConfigAfter: rendering consumes the list it ranged over
ConfigAfterConsumed(c, gen) ==
    IF gen = "variables" THEN [c EXCEPT !.Variables = <<>>]
    ELSE IF gen = "outputs" THEN [c EXCEPT !.Outputs = <<>>]
    ELSE c

\* the receiver after generator gen returned: no generator assigns to a field
ConfigAfter(c, gen) == c

NoOut == [gen |-> "none", arg |-> "", text |-> <<>>]

AIOff ==
    /\ forceLocal = FALSE
    /\ apiKey = ""
    /\ ctxDone = FALSE
    /\ pc = "off"
    /\ calls = <<>>
    /\ stdout = <<>>
    /\ remote = "NotAttempted"
    /\ local = "NotAttempted"
    /\ message = NoMessage
    /\ probeResp = NoProbe
    /\ genResp = NoGenerate
    /\ claudeRet = NoRet
    /\ ollamaRet = NoRet
    /\ ret = NoRet

InitTemplate ==
    /\ AIOff
    /\ ScaffoldOff
    /\ ShellOff
    /\ SetupOff
    /\ \E where \in Paths, st \in FewFileStates \cup {YamlFile(c) : c \in Configs} :
          /\ fs = [p \in {where} |-> st]
          /\ \/ /\ st \in FewFileStates
                /\ configPath \in {NoPath, CustomPath}
                /\ provider \in Providers
                /\ home \in HomeDirs
             \/ /\ where = CustomPath
                /\ configPath = CustomPath
                /\ provider = "aws"
                /\ home = "/home/dev"
    /\ tpc = "start"
    /\ templateConfig = NilConfig
    /\ loadErr = Nil
    /\ out = NoOut

\* templateConfig, err := LoadProviderTemplate(configPath, provider)
Load ==
    /\ tpc = "start"
    /\ LET r == LoadProviderTemplate(configPath, provider, home, fs) IN
         /\ templateConfig' = r.config
         /\ loadErr' = r.err
         /\ tpc' = IF r.err = Nil THEN "loaded" ELSE "failed"
    /\ UNCHANGED <<configPath, provider, home, fs, out>>
    /\ UNCHANGED <<aiVars, scVars, shVars, suVars>>

GenProvider ==
    /\ tpc = "loaded"
    /\ \E providerName \in ProviderNames :
          out' = [gen |-> "provider", arg |-> providerName,
                  text |-> GenerateProviderBlock(templateConfig[1], providerName)]
    /\ templateConfig' = Ptr(ConfigAfter(templateConfig[1], "provider"))
    /\ UNCHANGED <<configPath, provider, home, fs, tpc, loadErr>>
    /\ UNCHANGED <<aiVars, scVars, shVars, suVars>>

GenVariables ==
    /\ tpc = "loaded"
    /\ out' = [gen |-> "variables", arg |-> "",
               text |-> GenerateVariablesBlock(templateConfig[1])]
    /\ templateConfig' = Ptr(ConfigAfter(templateConfig[1], "variables"))
    /\ UNCHANGED <<configPath, provider, home, fs, tpc, loadErr>>
    /\ UNCHANGED <<aiVars, scVars, shVars, suVars>>

GenOutputs ==
    /\ tpc = "loaded"
    /\ out' = [gen |-> "outputs", arg |-> "",
               text |-> GenerateOutputsBlock(templateConfig[1])]
    /\ templateConfig' = Ptr(ConfigAfter(templateConfig[1], "outputs"))
    /\ UNCHANGED <<configPath, provider, home, fs, tpc, loadErr>>
    /\ UNCHANGED <<aiVars, scVars, shVars, suVars>>

GenData ==
    /\ tpc = "loaded"
    /\ \E prov \in Providers, ords \in DataOrders(templateConfig[1].Data) :
          out' = [gen |-> "data", arg |-> prov,
                  text |-> GenerateDataBlock(templateConfig[1], prov, ords)]
    /\ templateConfig' = Ptr(ConfigAfter(templateConfig[1], "data"))
    /\ UNCHANGED <<configPath, provider, home, fs, tpc, loadErr>>
    /\ UNCHANGED <<aiVars, scVars, shVars, suVars>>

GenTfvars ==
    /\ tpc = "loaded"
    /\ \E ord \in Perms(DOMAIN templateConfig[1].Tfvars) :
          out' = [gen |-> "tfvars", arg |-> "",
                  text |-> GenerateTfvarsBlock(templateConfig[1], ord)]
    /\ templateConfig' = Ptr(ConfigAfter(templateConfig[1], "tfvars"))
    /\ UNCHANGED <<configPath, provider, home, fs, tpc, loadErr>>
    /\ UNCHANGED <<aiVars, scVars, shVars, suVars>>

NextTemplate ==
    \/ Load
    \/ GenProvider
    \/ GenVariables
    \/ GenOutputs
    \/ GenData
    \/ GenTfvars

SpecTemplate == InitTemplate /\ [][NextTemplate]_vars

(***************************************************************************)
(* Scaffolding (internal/terraform/terraform.go).  A path is the sequence  *)
(* of its components; one that is not absolute is relative to the working *)
(* directory.                                                              *)
(***************************************************************************)
\* bound: the length of the provider list handed to scaffoldMultiProviderResource
MaxProviders == 3

ValidProviders == {"aws", "azure", "gcp"}

\* the resource name argument of `new`
ResourceName == "vpc"
\* the defaults of --terraform-version and of the provider version flags
TfVersion == <<">= 1.4.0">>
ProviderVersion(p) ==
    IF p = "azure" THEN <<">= 3.0">> ELSE IF p = "gcp" THEN <<">= 4.0">> ELSE <<">= 5.0">>

\* the directories a scaffold is pointed at: the working directory, one below
\* it, one outside it
ScaffoldDirs == {<<>>, <<"infra">>, <<"..", "shared">>}
\* the directory given as --config to `new`
ConfigDir == <<"/work/templates">>

\* validatePath(path); cwdOK is whether os.Getwd succeeds
ValidatePath(path, cwdOK) ==
    IF path = <<>> THEN [path |-> <<".">>, err |-> Nil]
    ELSE IF ~cwdOK THEN [path |-> <<>>, err |-> <<"failed to get current directory">>]
    ELSE IF Head(path) = ".." THEN [path |-> <<>>, err |-> <<"path traversal detected">>]
    ELSE [path |-> path, err |-> Nil]

\* filepath.Join(dir, elems...): "." disappears in front of other elements
JoinPath(dir, elems) == IF dir = <<".">> THEN elems ELSE dir \o elems

\* a mutation of FirstInvalid: only the head of the list is looked at
FirstInvalidHeadOnly(ps) ==
    IF Len(ps) >= 1 /\ ps[1] \notin ValidProviders THEN 1 ELSE 0

\* the position of the first provider of the list that is not valid, or 0
FirstInvalid(ps) ==
    IF \A i \in 1..Len(ps) : ps[i] \in ValidProviders THEN 0
    ELSE CHOOSE i \in 1..Len(ps) :
            /\ ps[i] \notin ValidProviders
            /\ \A j \in 1..(i - 1) : ps[j] \in ValidProviders

\* the --config value scaffoldTerraformDir gets for provider p
ConfigPathFor(p) ==
    IF cmd = "init-dir" THEN configBase
    ELSE IF configBase # NoPath THEN configBase \o <<p \o ".yaml">>
    ELSE NoPath

\* the directory scaffoldTerraformDir is called with for provider p
DirFor(p) ==
    IF cmd = "init-dir" THEN basePath
    ELSE JoinPath(ValidatePath(basePath, TRUE).path, <<ResourceName, p>>)

\* a mutation of ProviderName: the name given on the command line is used as it is
ProviderNameAsGiven(p) == IF p \in ValidProviders THEN p ELSE ""

\* the identifier of the provider block
ProviderName(p) ==
    IF p = "aws" THEN "aws" ELSE IF p = "azure" THEN "azurerm"
    ELSE IF p = "gcp" THEN "google" ELSE ""

\* versionContent
VersionContent(p, tfVersion, providerVersion) ==
    <<"terraform {", NL, "  required_version = ", Q>> \o tfVersion \o <<Q, NL,
      "  required_providers {", NL>>
    \o (IF ProviderName(p) = "" THEN <<>>
        ELSE <<"    ", ProviderName(p), " = {", NL,
               "      source  = ", Q, "hashicorp/", ProviderName(p), Q, NL,
               "      version = ", Q>> \o providerVersion \o <<Q, NL,
               "    }", NL>>)
    \o <<"  }", NL, "}", NL>>

FileNames == {"version.tf", "main.tf", "input.tf", "output.tf", "data.tf", "terraform.tfvars"}

\* the map `files` of scaffoldTerraformDir
FilesOf(c, p, ords, ord) ==
    [f \in FileNames |->
        IF f = "version.tf" THEN VersionContent(p, TfVersion, ProviderVersion(p))
        ELSE IF f = "main.tf" THEN GenerateProviderBlock(c, ProviderName(p))
        ELSE IF f = "input.tf" THEN GenerateVariablesBlock(c)
        ELSE IF f = "output.tf" THEN GenerateOutputsBlock(c)
        ELSE IF f = "data.tf" THEN GenerateDataBlock(c, p, ords)
        ELSE GenerateTfvarsBlock(c, ord)]

\* strings.ToUpper of a provider name
ToUpper(p) ==
    IF p = "aws" THEN "AWS" ELSE IF p = "azure" THEN "AZURE" ELSE IF p = "gcp" THEN "GCP" ELSE p

\* readmeContent: title, provider list, structure tree, usage (the tree's
\* box-drawing characters written as |-- and L--)
ReadmeContent(name, ps) ==
    <<"# ", name, NL, NL, "Multi-cloud Terraform resource for ", name, ".", NL, NL,
      "This resource supports the following cloud providers:", NL>>
    \o Join([i \in 1..Len(ps) |-> <<"- ", ToUpper(ps[i])>>])
    \o <<NL, NL, "## Structure", NL, NL, name, "/", NL>>
    \o Flatten([i \in 1..Len(ps) |->
                  <<(IF i = Len(ps) THEN "L-- " ELSE "|-- "), ps[i], "/", NL>>
                  \o Flatten([k \in 1..6 |->
                        <<(IF i = Len(ps) THEN "    " ELSE "|   "),
                          (IF k = 6 THEN "L-- " ELSE "|-- "),
                          <<"version.tf", "main.tf", "input.tf", "output.tf", "data.tf",
                            "terraform.tfvars">>[k], NL>>])])
    \o <<NL, "## Usage", NL, NL, "cd ", name, "/", ps[1], NL,
         "terraform init", NL, "terraform plan", NL, "terraform apply", NL>>

\* a mutation of TemplateOrAbort: a template that does not load is taken as empty
TemplateOrPlaceholder(r) ==
    IF r.err # Nil THEN [abort |-> FALSE, err |-> Nil, config |-> ZeroConfig]
    ELSE [abort |-> FALSE, err |-> Nil, config |-> r.config[1]]

\* what scaffoldTerraformDir does with LoadProviderTemplate's result r
TemplateOrAbort(r) ==
    IF r.err # Nil
    THEN [abort |-> TRUE, err |-> <<"failed to load template config">> \o r.err,
          config |-> ZeroConfig]
    ELSE [abort |-> FALSE, err |-> Nil, config |-> r.config[1]]

\* the template with a sample in every section
SampleConfig ==
    CHOOSE c \in FewConfigs :
       /\ c.Provider = SampleProvider
       /\ c.Variables # <<>> /\ c.Outputs # <<>> /\ c.Data # <<>> /\ c.Tfvars # <<>>

\* the states a template file is in when a scaffold runs
ScaffoldFileStates == {Missing, Unreadable, BadYaml, YamlFile(SampleConfig)}

\* the provider lists: no name twice (the command builds the list from the
\* keys of a map), the empty list included
ProviderLists ==
    {ps \in SeqsUpTo(Providers, MaxProviders) :
        \A i, j \in 1..Len(ps) : ps[i] = ps[j] => i = j}

\* the --config values and homes a scaffold runs with
ScaffoldConfigs(c) ==
    {[config |-> NoPath, home |-> "/home/dev"], [config |-> NoPath, home |-> ""],
     [config |-> (IF c = "init-dir" THEN CustomPath ELSE ConfigDir), home |-> "/home/dev"]}

\* the template paths a scaffold of the valid providers of ps will ask for
TemplatePaths(c, ps, cfg) ==
    IF cfg.config = NoPath /\ cfg.home = "" THEN {}
    ELSE {(IF cfg.config = NoPath THEN DefaultPath(cfg.home, ps[i])
           ELSE IF c = "init-dir" THEN cfg.config
           ELSE cfg.config \o <<ps[i] \o ".yaml">>) :
             i \in {j \in 1..Len(ps) : ps[j] \in ValidProviders}}

TemplateOff ==
    /\ configPath = NoPath
    /\ provider = ""
    /\ tpc = "start"
    /\ templateConfig = NilConfig
    /\ loadErr = Nil
    /\ out = NoOut

InitScaffold ==
    /\ AIOff
    /\ TemplateOff
    /\ ShellOff
    /\ SetupOff
    /\ cmd \in {"init-dir", "new"}
    /\ basePath \in ScaffoldDirs
    /\ providers \in ProviderLists
    /\ cmd = "init-dir" => Len(providers) = 1
    /\ \E cfg \in ScaffoldConfigs(cmd) :
          /\ configBase = cfg.config
          /\ home = cfg.home
          /\ fs \in [TemplatePaths(cmd, providers, cfg) -> ScaffoldFileStates]
    /\ spc = IF cmd = "new" THEN "scaffoldMultiProviderResource" ELSE "scaffoldTerraformDir"
    /\ idx = IF cmd = "new" THEN 0 ELSE 1
    /\ dirs = {}
    /\ disk = <<>>
    /\ toWrite = <<>>
    /\ scaffoldErr = Nil

\* the command's function returns err
Return(err) ==
    /\ spc' = "done"
    /\ scaffoldErr' = err
    /\ idx' = idx

\* a mutation of ReturnFromDir: the loop notes the first failure and goes on
\* with the providers that are left
ReturnFromDirSkipping(err) ==
    LET first == IF scaffoldErr # Nil THEN scaffoldErr
                 ELSE IF err # Nil
                 THEN <<"failed to scaffold " \o providers[idx] \o " directory">> \o err
                 ELSE Nil
    IN  IF cmd = "init-dir" THEN Return(err)
        ELSE IF idx < Len(providers)
        THEN /\ spc' = "scaffoldTerraformDir"
             /\ idx' = idx + 1
             /\ scaffoldErr' = first
        ELSE Return(first)

\* scaffoldTerraformDir returns err: to the command for init-dir, into the
\* loop of scaffoldMultiProviderResource for new
ReturnFromDir(err) ==
    IF cmd = "init-dir" THEN Return(err)
    ELSE IF err # Nil
    THEN Return(<<"failed to scaffold " \o providers[idx] \o " directory">> \o err)
    ELSE IF idx < Len(providers)
    THEN /\ spc' = "scaffoldTerraformDir"
         /\ idx' = idx + 1
         /\ scaffoldErr' = Nil
    ELSE Return(Nil)

\* disk with content written at path
WriteFile(d, path, content) ==
    [q \in DOMAIN d \cup {path} |-> IF q = path THEN content ELSE d[q]]

\* scaffoldMultiProviderResource up to validatePath: the provider list, then the base path
MultiCheck ==
    /\ spc = "scaffoldMultiProviderResource"
    /\ \E cwdOK \in BOOLEAN :
          LET v == ValidatePath(basePath, cwdOK) IN
          IF Len(providers) = 0
          THEN Return(<<"at least one provider must be specified">>)
          ELSE IF FirstInvalid(providers) # 0
          THEN Return(<<"invalid provider: " \o providers[FirstInvalid(providers)]>>)
          ELSE IF v.err # Nil
          THEN Return(<<"invalid base path">> \o v.err)
          ELSE /\ spc' = "MkdirAll(resourceDir)"
               /\ UNCHANGED <<idx, scaffoldErr>>
    /\ UNCHANGED <<cmd, basePath, providers, configBase, dirs, disk, toWrite>>
    /\ UNCHANGED <<aiVars, tplVars, shVars, suVars>>

\* os.MkdirAll(resourceDir)
MultiMkdirAll ==
    /\ spc = "MkdirAll(resourceDir)"
    /\ \/ /\ dirs' = dirs \cup {JoinPath(ValidatePath(basePath, TRUE).path, <<ResourceName>>)}
          /\ spc' = "README.md"
          /\ UNCHANGED <<idx, scaffoldErr>>
       \/ /\ Return(<<"failed to create resource directory", "mkdir failed">>)
          /\ UNCHANGED dirs
    /\ UNCHANGED <<cmd, basePath, providers, configBase, disk, toWrite>>
    /\ UNCHANGED <<aiVars, tplVars, shVars, suVars>>

\* os.WriteFile(readmePath), then into the loop over the providers
MultiReadme ==
    /\ spc = "README.md"
    /\ \/ /\ disk' = WriteFile(disk,
                               JoinPath(ValidatePath(basePath, TRUE).path,
                                        <<ResourceName, "README.md">>),
                               ReadmeContent(ResourceName, providers))
          /\ spc' = "scaffoldTerraformDir"
          /\ idx' = 1
          /\ UNCHANGED scaffoldErr
       \/ /\ Return(<<"failed to create README.md", "write failed">>)
          /\ UNCHANGED disk
    /\ UNCHANGED <<cmd, basePath, providers, configBase, dirs, toWrite>>
    /\ UNCHANGED <<aiVars, tplVars, shVars, suVars>>

\* scaffoldTerraformDir up to validatePath: the provider, then the directory
DirCheck ==
    /\ spc = "scaffoldTerraformDir"
    /\ provider' = providers[idx]
    /\ configPath' = ConfigPathFor(providers[idx])
    /\ tpc' = "start"
    /\ templateConfig' = NilConfig
    /\ loadErr' = Nil
    /\ toWrite' = <<>>
    /\ \E cwdOK \in BOOLEAN :
          LET v == ValidatePath(DirFor(providers[idx]), cwdOK) IN
          IF providers[idx] \notin ValidProviders
          THEN ReturnFromDir(<<"provider must be 'aws', 'azure', or 'gcp'">>)
          ELSE IF v.err # Nil
          THEN ReturnFromDir(<<"invalid directory path">> \o v.err)
          ELSE /\ spc' = "MkdirAll"
               /\ UNCHANGED <<idx, scaffoldErr>>
    /\ UNCHANGED <<cmd, basePath, providers, configBase, dirs, disk>>
    /\ UNCHANGED <<home, fs, out>>
    /\ UNCHANGED <<aiVars, shVars, suVars>>

\* os.MkdirAll(safePath)
DirMkdirAll ==
    /\ spc = "MkdirAll"
    /\ \/ /\ dirs' = dirs \cup {ValidatePath(DirFor(provider), TRUE).path}
          /\ spc' = "LoadProviderTemplate"
          /\ UNCHANGED <<idx, scaffoldErr>>
       \/ /\ ReturnFromDir(<<"failed to create directory", "mkdir failed">>)
          /\ UNCHANGED dirs
    /\ UNCHANGED <<cmd, basePath, providers, configBase, disk, toWrite>>
    /\ UNCHANGED <<aiVars, tplVars, shVars, suVars>>

\* LoadProviderTemplate, then the six contents
DirLoadTemplate ==
    /\ spc = "LoadProviderTemplate"
    /\ LET r == LoadProviderTemplate(configPath, provider, home, fs)
           t == TemplateOrAbort(r)
       IN  /\ templateConfig' = r.config
           /\ loadErr' = r.err
           /\ tpc' = IF r.err = Nil THEN "loaded" ELSE "failed"
           /\ IF t.abort
              THEN /\ ReturnFromDir(t.err)
                   /\ UNCHANGED toWrite
              ELSE /\ \E ords \in DataOrders(t.config.Data), ord \in Perms(DOMAIN t.config.Tfvars) :
                         toWrite' = FilesOf(t.config, provider, ords, ord)
                   /\ spc' = "WriteFile"
                   /\ UNCHANGED <<idx, scaffoldErr>>
    /\ UNCHANGED <<cmd, basePath, providers, configBase, dirs, disk>>
    /\ UNCHANGED <<configPath, provider, home, fs, out>>
    /\ UNCHANGED <<aiVars, shVars, suVars>>

\* one turn of the loop over the map `files`: any file not yet written
DirWriteFile ==
    /\ spc = "WriteFile"
    /\ LET dir == ValidatePath(DirFor(provider), TRUE).path
           left == {f \in DOMAIN toWrite : JoinPath(dir, <<f>>) \notin DOMAIN disk}
       IN  \E filename \in left :
              \/ /\ disk' = WriteFile(disk, JoinPath(dir, <<filename>>), toWrite[filename])
                 /\ IF left = {filename}
                    THEN ReturnFromDir(Nil)
                    ELSE UNCHANGED <<spc, idx, scaffoldErr>>
              \/ /\ ReturnFromDir(<<"failed to create " \o filename, "write failed">>)
                 /\ UNCHANGED disk
    /\ UNCHANGED <<cmd, basePath, providers, configBase, dirs, toWrite>>
    /\ UNCHANGED <<aiVars, tplVars, shVars, suVars>>

NextScaffold ==
    \/ MultiCheck
    \/ MultiMkdirAll
    \/ MultiReadme
    \/ DirCheck
    \/ DirMkdirAll
    \/ DirLoadTemplate
    \/ DirWriteFile

SpecScaffold == InitScaffold /\ [][NextScaffold]_vars

(***************************************************************************)
(* Commands that run tools: git branch and git rebase (internal/git) and   *)
(* terraform check.  Every tool is started through shell.Run or            *)
(* shell.RunInteractive; whether it succeeds, and what it prints, is the   *)
(* tool's choice.  An output is a text: the sequence of its pieces.        *)
(***************************************************************************)
\* the error of a tool that exits with a failure
ExitError == <<"exit status 1">>

IsSpace(x) == x \in {" ", NL}

\* strings.TrimSpace: the white space at both ends goes
RECURSIVE TrimSpace(_)
TrimSpace(t) ==
    IF t = <<>> THEN <<>>
    ELSE IF IsSpace(Head(t)) THEN TrimSpace(Tail(t))
    ELSE IF IsSpace(t[Len(t)]) THEN TrimSpace(SubSeq(t, 1, Len(t) - 1))
    ELSE t

\* the string of a text
RECURSIVE Str(_)
Str(t) == IF t = <<>> THEN "" ELSE Head(t) \o Str(Tail(t))

\* parts[len(parts)-1] of strings.Split(output, "/")
RECURSIVE LastPart(_)
LastPart(t) ==
    IF t = <<>> THEN <<>>
    ELSE IF t[Len(t)] = "/" THEN <<>>
    ELSE Append(LastPart(SubSeq(t, 1, Len(t) - 1)), t[Len(t)])

\* the command lines
RevParseGitDir == <<"git", "rev-parse", "--git-dir">>
SymbolicRef == <<"git", "symbolic-ref", "refs/remotes/origin/HEAD">>
ShowRefMain == <<"git", "show-ref", "--verify", "--quiet", "refs/heads/main">>
StatusPorcelain == <<"git", "status", "--porcelain">>
Stash == <<"git", "stash">>
StashPop == <<"git", "stash", "pop">>
Checkout(b) == <<"git", "checkout", b>>
Pull == <<"git", "pull">>
CheckoutNew(b) == <<"git", "checkout", "-b", b>>
AbbrevRefHead == <<"git", "rev-parse", "--abbrev-ref", "HEAD">>
Fetch(b) == <<"git", "fetch", "origin", b \o ":" \o b>>
Rebase(b) == <<"git", "rebase", b>>
PushForce(b) == <<"git", "push", "-f", "origin", b>>
TerraformFmt(q) == <<"terraform", "fmt", q>>
TerraformValidate(q) == <<"terraform", "validate", q>>
Tflint(q) == <<"tflint", q>>
Tfsec(q) == <<"tfsec", q>>

\* what a tool may print when it succeeds, before shell.Run trims it
Printed(a) ==
    IF a = SymbolicRef
    THEN {<<"refs", "/", "remotes", "/", "origin", "/", "main", NL>>,
          <<"refs", "/", "remotes", "/", "origin", "/", "develop", NL>>}
    ELSE IF a = StatusPorcelain
    THEN {<<>>, <<NL>>, <<" ", "M main.go", NL>>}
    ELSE IF a = AbbrevRefHead
    THEN {<<"main", NL>>, <<"feature", "/", "login", NL>>}
    ELSE {<<>>}

\* shell.Run(ctx, a...): the trimmed output and the error
Run(a) ==
    {[output |-> TrimSpace(o), err |-> Nil] : o \in Printed(a)}
    \cup {[output |-> <<"fatal">>, err |-> ExitError]}

\* shell.RunInteractive(ctx, a...): the error only
RunInteractive(a) == {[output |-> <<>>, err |-> e] : e \in {Nil, ExitError}}

\* a mutation of Failed: no error of a tool is looked at
FailedNever(r) == FALSE

\* `err != nil` for what a run returned
Failed(r) == r.err # Nil

\* a mutation of SameBranch: the two names are never compared
SameBranchNever(cur, target) == FALSE

\* currentBranch == targetBranch
SameBranch(cur, target) == cur = target

\* a mutation of DeferStashPop: nothing is registered
DeferNothing(d) == d

\* defer func() { shell.Run(ctx, "git", "stash", "pop") }()
DeferStashPop(d) == <<StashPop>> \o d

\* the arguments a git command is called with
BranchArgs == {<<>>, <<"main">>, <<"feature/login">>}

InitShell ==
    /\ AIOff
    /\ TemplateOff
    /\ home = ""
    /\ fs = <<>>
    /\ ScaffoldOff
    /\ SetupOff
    /\ tool \in {"git branch", "git rebase", "terraform check"}
    /\ argv \in (IF tool = "terraform check" THEN {<<>>} ELSE BranchArgs)
    /\ pathFlag \in (IF tool = "terraform check" THEN ScaffoldDirs ELSE {<<>>})
    /\ gpc = "start"
    /\ ran = <<>>
    /\ defaultBranch = ""
    /\ currentBranch = ""
    /\ hasChanges = FALSE
    /\ deferred = <<>>
    /\ safePath = <<>>
    /\ toolErr = Nil

\* a has run and returned r
Logged(a, r) == ran' = Append(ran, [argv |-> a, ok |-> r.err = Nil])

\* the Action returns err: its deferred calls run before the command ends
Finish(err) ==
    /\ toolErr' = err
    /\ gpc' = IF deferred = <<>> THEN "done" ELSE "deferred"

\* the deferred call on top runs; what it returns is dropped
RunDeferred ==
    /\ gpc = "deferred"
    /\ \E r \in Run(Head(deferred)) : Logged(Head(deferred), r)
    /\ deferred' = Tail(deferred)
    /\ gpc' = IF Tail(deferred) = <<>> THEN "done" ELSE "deferred"
    /\ UNCHANGED <<tool, argv, pathFlag, defaultBranch, currentBranch, hasChanges,
                   safePath, toolErr>>
    /\ UNCHANGED <<aiVars, tplVars, scVars, suVars>>

\* git branch: the argument count, then `git rev-parse --git-dir`
BranchRevParse ==
    /\ tool = "git branch" /\ gpc = "start"
    /\ IF Len(argv) < 1
       THEN Finish(<<"branch name is required">>) /\ UNCHANGED ran
       ELSE \E r \in Run(RevParseGitDir) :
               /\ Logged(RevParseGitDir, r)
               /\ IF Failed(r)
                  THEN Finish(<<"not in a git repository">>)
                  ELSE gpc' = "getDefaultBranch" /\ UNCHANGED toolErr
    /\ UNCHANGED <<tool, argv, pathFlag, defaultBranch, currentBranch, hasChanges,
                   deferred, safePath>>
    /\ UNCHANGED <<aiVars, tplVars, scVars, suVars>>

\* getDefaultBranch: `git symbolic-ref refs/remotes/origin/HEAD`
BranchSymbolicRef ==
    /\ gpc = "getDefaultBranch"
    /\ \E r \in Run(SymbolicRef) :
          /\ Logged(SymbolicRef, r)
          /\ IF ~Failed(r)
             THEN /\ defaultBranch' = Str(LastPart(r.output))
                  /\ gpc' = "hasUncommittedChanges"
             ELSE /\ gpc' = "show-ref"
                  /\ UNCHANGED defaultBranch
    /\ UNCHANGED <<tool, argv, pathFlag, currentBranch, hasChanges, deferred, safePath,
                   toolErr>>
    /\ UNCHANGED <<aiVars, tplVars, scVars, suVars>>

\* getDefaultBranch's fallback: main if it exists, master otherwise
BranchShowRef ==
    /\ gpc = "show-ref"
    /\ \E r \in Run(ShowRefMain) :
          /\ Logged(ShowRefMain, r)
          /\ defaultBranch' = IF ~Failed(r) THEN "main" ELSE "master"
    /\ gpc' = "hasUncommittedChanges"
    /\ UNCHANGED <<tool, argv, pathFlag, currentBranch, hasChanges, deferred, safePath,
                   toolErr>>
    /\ UNCHANGED <<aiVars, tplVars, scVars, suVars>>

\* git branch: hasUncommittedChanges
BranchStatus ==
    /\ tool = "git branch" /\ gpc = "hasUncommittedChanges"
    /\ \E r \in Run(StatusPorcelain) :
          /\ Logged(StatusPorcelain, r)
          /\ IF Failed(r)
             THEN /\ Finish(<<"failed to check for uncommitted changes">> \o r.err)
                  /\ UNCHANGED hasChanges
             ELSE /\ hasChanges' = (TrimSpace(r.output) # <<>>)
                  /\ gpc' = IF hasChanges' THEN "stash" ELSE "checkout"
                  /\ UNCHANGED toolErr
    /\ UNCHANGED <<tool, argv, pathFlag, defaultBranch, currentBranch, deferred, safePath>>
    /\ UNCHANGED <<aiVars, tplVars, scVars, suVars>>

\* git branch: `git stash`, and the deferred `git stash pop`
BranchStash ==
    /\ gpc = "stash"
    /\ \E r \in Run(Stash) :
          /\ Logged(Stash, r)
          /\ IF Failed(r)
             THEN /\ Finish(<<"failed to stash changes">> \o r.err)
                  /\ UNCHANGED deferred
             ELSE /\ deferred' = DeferStashPop(deferred)
                  /\ gpc' = "checkout"
                  /\ UNCHANGED toolErr
    /\ UNCHANGED <<tool, argv, pathFlag, defaultBranch, currentBranch, hasChanges, safePath>>
    /\ UNCHANGED <<aiVars, tplVars, scVars, suVars>>

\* git branch: `git checkout <defaultBranch>`
BranchCheckout ==
    /\ gpc = "checkout"
    /\ \E r \in Run(Checkout(defaultBranch)) :
          /\ Logged(Checkout(defaultBranch), r)
          /\ IF Failed(r)
             THEN Finish(<<"failed to checkout " \o defaultBranch>> \o r.err)
             ELSE gpc' = "pull" /\ UNCHANGED toolErr
    /\ UNCHANGED <<tool, argv, pathFlag, defaultBranch, currentBranch, hasChanges,
                   deferred, safePath>>
    /\ UNCHANGED <<aiVars, tplVars, scVars, suVars>>

\* git branch: `git pull`
BranchPull ==
    /\ gpc = "pull"
    /\ \E r \in Run(Pull) :
          /\ Logged(Pull, r)
          /\ IF Failed(r)
             THEN Finish(<<"failed to pull latest">> \o r.err)
             ELSE gpc' = "checkout -b" /\ UNCHANGED toolErr
    /\ UNCHANGED <<tool, argv, pathFlag, defaultBranch, currentBranch, hasChanges,
                   deferred, safePath>>
    /\ UNCHANGED <<aiVars, tplVars, scVars, suVars>>

\* git branch: `git checkout -b <branchName>`, the last step
BranchCheckoutNew ==
    /\ gpc = "checkout -b"
    /\ \E r \in Run(CheckoutNew(argv[1])) :
          /\ Logged(CheckoutNew(argv[1]), r)
          /\ IF Failed(r)
             THEN Finish(<<"failed to create branch">> \o r.err)
             ELSE Finish(Nil)
    /\ UNCHANGED <<tool, argv, pathFlag, defaultBranch, currentBranch, hasChanges,
                   deferred, safePath>>
    /\ UNCHANGED <<aiVars, tplVars, scVars, suVars>>

\* git rebase: the argument count, then `git rev-parse --git-dir`
RebaseRevParse ==
    /\ tool = "git rebase" /\ gpc = "start"
    /\ IF Len(argv) < 1
       THEN Finish(<<"target branch is required">>) /\ UNCHANGED ran
       ELSE \E r \in Run(RevParseGitDir) :
               /\ Logged(RevParseGitDir, r)
               /\ IF Failed(r)
                  THEN Finish(<<"not in a git repository">>)
                  ELSE gpc' = "getCurrentBranch" /\ UNCHANGED toolErr
    /\ UNCHANGED <<tool, argv, pathFlag, defaultBranch, currentBranch, hasChanges,
                   deferred, safePath>>
    /\ UNCHANGED <<aiVars, tplVars, scVars, suVars>>

\* git rebase: getCurrentBranch, and no rebase of a branch onto itself
RebaseCurrentBranch ==
    /\ gpc = "getCurrentBranch"
    /\ \E r \in Run(AbbrevRefHead) :
          /\ Logged(AbbrevRefHead, r)
          /\ IF Failed(r)
             THEN /\ Finish(<<"failed to get current branch">> \o r.err)
                  /\ UNCHANGED currentBranch
             ELSE /\ currentBranch' = Str(r.output)
                  /\ IF SameBranch(Str(r.output), argv[1])
                     THEN Finish(<<"cannot rebase branch onto itself">>)
                     ELSE gpc' = "hasUncommittedChanges" /\ UNCHANGED toolErr
    /\ UNCHANGED <<tool, argv, pathFlag, defaultBranch, hasChanges, deferred, safePath>>
    /\ UNCHANGED <<aiVars, tplVars, scVars, suVars>>

\* git rebase: hasUncommittedChanges, and no rebase of a dirty working tree
RebaseStatus ==
    /\ tool = "git rebase" /\ gpc = "hasUncommittedChanges"
    /\ \E r \in Run(StatusPorcelain) :
          /\ Logged(StatusPorcelain, r)
          /\ IF Failed(r)
             THEN /\ Finish(<<"failed to check for uncommitted changes">> \o r.err)
                  /\ UNCHANGED hasChanges
             ELSE /\ hasChanges' = (TrimSpace(r.output) # <<>>)
                  /\ IF hasChanges'
                     THEN Finish(<<"uncommitted changes detected. Please commit or stash before rebasing">>)
                     ELSE gpc' = "fetch" /\ UNCHANGED toolErr
    /\ UNCHANGED <<tool, argv, pathFlag, defaultBranch, currentBranch, deferred, safePath>>
    /\ UNCHANGED <<aiVars, tplVars, scVars, suVars>>

\* git rebase, step 1: `git fetch origin <target>:<target>`
RebaseFetch ==
    /\ gpc = "fetch"
    /\ \E r \in Run(Fetch(argv[1])) :
          /\ Logged(Fetch(argv[1]), r)
          /\ IF Failed(r)
             THEN Finish(<<"failed to fetch origin " \o argv[1] \o ":" \o argv[1]>> \o r.err)
             ELSE gpc' = "rebase" /\ UNCHANGED toolErr
    /\ UNCHANGED <<tool, argv, pathFlag, defaultBranch, currentBranch, hasChanges,
                   deferred, safePath>>
    /\ UNCHANGED <<aiVars, tplVars, scVars, suVars>>

\* git rebase, step 2: `git rebase <target>`, interactive
RebaseRebase ==
    /\ gpc = "rebase"
    /\ \E r \in RunInteractive(Rebase(argv[1])) :
          /\ Logged(Rebase(argv[1]), r)
          /\ IF Failed(r)
             THEN Finish(<<"rebase failed">> \o r.err)
             ELSE gpc' = "push" /\ UNCHANGED toolErr
    /\ UNCHANGED <<tool, argv, pathFlag, defaultBranch, currentBranch, hasChanges,
                   deferred, safePath>>
    /\ UNCHANGED <<aiVars, tplVars, scVars, suVars>>

\* git rebase, step 3: `git push -f origin <currentBranch>`
RebasePush ==
    /\ gpc = "push"
    /\ \E r \in Run(PushForce(currentBranch)) :
          /\ Logged(PushForce(currentBranch), r)
          /\ IF Failed(r)
             THEN Finish(<<"failed to force push">> \o r.err)
             ELSE Finish(Nil)
    /\ UNCHANGED <<tool, argv, pathFlag, defaultBranch, currentBranch, hasChanges,
                   deferred, safePath>>
    /\ UNCHANGED <<aiVars, tplVars, scVars, suVars>>

\* terraform check: validatePath(path)
CheckValidatePath ==
    /\ tool = "terraform check" /\ gpc = "start"
    /\ \E cwdOK \in BOOLEAN :
          LET v == ValidatePath(pathFlag, cwdOK) IN
          IF v.err # Nil
          THEN Finish(v.err) /\ UNCHANGED safePath
          ELSE /\ safePath' = v.path
               /\ gpc' = "terraform fmt"
               /\ UNCHANGED toolErr
    /\ UNCHANGED <<tool, argv, pathFlag, ran, defaultBranch, currentBranch, hasChanges,
                   deferred>>
    /\ UNCHANGED <<aiVars, tplVars, scVars, suVars>>

\* one step of terraform check: a runs; its error ends the command, its
\* success leads to the step `then`, or to the end of the command
CheckStep(a, then) ==
    /\ \E r \in Run(a) :
          /\ Logged(a, r)
          /\ IF Failed(r) THEN Finish(r.err)
             ELSE IF then = "done" THEN Finish(Nil)
             ELSE gpc' = then /\ UNCHANGED toolErr
    /\ UNCHANGED <<tool, argv, pathFlag, defaultBranch, currentBranch, hasChanges,
                   deferred, safePath>>
    /\ UNCHANGED <<aiVars, tplVars, scVars, suVars>>

\* step 1: terraform fmt
CheckFmt == gpc = "terraform fmt" /\ CheckStep(TerraformFmt(safePath), "terraform validate")

\* step 2: terraform validate
CheckValidate == gpc = "terraform validate" /\ CheckStep(TerraformValidate(safePath), "tflint")

\* step 3: tflint
CheckTflint == gpc = "tflint" /\ CheckStep(Tflint(safePath), "tfsec")

\* step 4: tfsec
CheckTfsec == gpc = "tfsec" /\ CheckStep(Tfsec(safePath), "done")

NextShell ==
    \/ BranchRevParse
    \/ BranchSymbolicRef
    \/ BranchShowRef
    \/ BranchStatus
    \/ BranchStash
    \/ BranchCheckout
    \/ BranchPull
    \/ BranchCheckoutNew
    \/ RunDeferred
    \/ RebaseRevParse
    \/ RebaseCurrentBranch
    \/ RebaseStatus
    \/ RebaseFetch
    \/ RebaseRebase
    \/ RebasePush
    \/ CheckValidatePath
    \/ CheckFmt
    \/ CheckValidate
    \/ CheckTflint
    \/ CheckTfsec

SpecShell == InitShell /\ [][NextShell]_vars

(***************************************************************************)
(* The setup command (package setup): the Homebrew check, the survey of    *)
(* the required packages, and the three offers (upgrades, migrations,      *)
(* installs).  What the machine holds is fixed when the command starts;    *)
(* what the user types, and whether a change succeeds, is decided when it  *)
(* happens.  A response is the text read from stdin, character by          *)
(* character.                                                              *)
(***************************************************************************)
\* RequiredPackages and the kind Homebrew knows each of them as
RequiredPackages == <<"go", "sequel-ace", "utm">>

KnownType(name) == IF name = "go" THEN "formula" ELSE "cask"

\* where a manual installation of a package is found
ManualPathOf(name) ==
    IF name = "go" THEN "/usr/local/go/bin/go"
    ELSE IF name = "sequel-ace" THEN "/Applications/Sequel Ace.app"
    ELSE "/Applications/Utm.app"

\* what the machine may hold of a package: Type is what detectPackageType
\* finds, Installed what `brew list` says, Manual whether
\* checkManualInstallation finds the package outside Homebrew, Current and
\* Latest what getPackageVersion and getLatestVersion read
Situations(name) ==
    {[Type |-> "unknown", Installed |-> FALSE, Manual |-> FALSE, Current |-> "", Latest |-> ""],
     [Type |-> KnownType(name), Installed |-> TRUE, Manual |-> FALSE,
      Current |-> "1.22.0", Latest |-> "1.22.0"],
     [Type |-> KnownType(name), Installed |-> TRUE, Manual |-> FALSE,
      Current |-> "1.21.0", Latest |-> "1.22.0"],
     [Type |-> KnownType(name), Installed |-> FALSE, Manual |-> TRUE,
      Current |-> "", Latest |-> "1.22.0"],
     [Type |-> KnownType(name), Installed |-> FALSE, Manual |-> FALSE,
      Current |-> "", Latest |-> "unknown"]}

\* compareVersions(current, latest)
compareVersions(cur, latest) ==
    IF cur = "unknown" \/ latest = "unknown" THEN FALSE ELSE cur # latest

\* the PackageInfo the loop over RequiredPackages builds for one package
PackageInfoOf(name, w) ==
    IF w.Type = "unknown"
    THEN [Name |-> name, Type |-> "unknown", Installed |-> FALSE,
          ManuallyInstalled |-> FALSE, ManualPath |-> "", CurrentVersion |-> "",
          LatestVersion |-> "", NeedsUpgrade |-> FALSE, NeedsInstall |-> FALSE,
          NeedsMigration |-> FALSE]
    ELSE [Name |-> name, Type |-> w.Type, Installed |-> w.Installed,
          ManuallyInstalled |-> (~w.Installed /\ w.Manual),
          ManualPath |-> (IF ~w.Installed /\ w.Manual THEN ManualPathOf(name) ELSE ""),
          CurrentVersion |-> (IF w.Installed THEN w.Current ELSE ""),
          LatestVersion |-> w.Latest,
          NeedsUpgrade |-> (w.Installed /\ compareVersions(w.Current, w.Latest)),
          NeedsInstall |-> ~w.Installed,
          NeedsMigration |-> (~w.Installed /\ w.Manual)]

\* the three lists the offers are made for
NeedsUpgrade(info) == info.NeedsUpgrade
NeedsMigration(info) == info.NeedsMigration
NeedsInstallOnly(info) == info.NeedsInstall /\ ~info.NeedsMigration
packagesToUpgrade(infos) == SelectSeq(infos, NeedsUpgrade)
packagesToMigrate(infos) == SelectSeq(infos, NeedsMigration)
packagesToInstall(infos) == SelectSeq(infos, NeedsInstallOnly)

\* strings.ToLower, character by character
Lower(ch) ==
    CASE ch = "Y" -> "y"
      [] ch = "E" -> "e"
      [] ch = "S" -> "s"
      [] ch = "N" -> "n"
      [] OTHER -> ch
ToLower(t) == [i \in DOMAIN t |-> Lower(t[i])]

\* what reader.ReadString('\n') may return: a line, or what was typed before
\* stdin ended together with the error
Reads ==
    {[response |-> t, err |-> Nil] :
        t \in {<<"y", NL>>, <<" ", "Y", "E", "S", NL>>, <<"n", NL>>, <<"y", "e", "s", "!", NL>>}}
    \cup {[response |-> <<"y">>, err |-> <<"EOF">>]}

\* a mutation of promptConfirmation: every line that was read confirms
promptConfirmationAnyLine(rd) ==
    IF rd.err # Nil THEN [confirm |-> FALSE, err |-> rd.err]
    ELSE [confirm |-> TRUE, err |-> Nil]

\* promptConfirmation, after the read returned rd
promptConfirmation(rd) ==
    IF rd.err # Nil THEN [confirm |-> FALSE, err |-> rd.err]
    ELSE [confirm |-> TrimSpace(ToLower(rd.response)) \in {<<"y">>, <<"y", "e", "s">>},
          err |-> Nil]

\* the command lines of the changes
InstallScript ==
    <<"/bin/bash", "-c",
      "curl -fsSL https://raw.githubusercontent.com/Homebrew/install/HEAD/install.sh | bash">>
BrewUpgrade(info) ==
    IF info.Type = "cask" THEN <<"brew", "upgrade", "--cask", info.Name>>
    ELSE <<"brew", "upgrade", info.Name>>
BrewInstall(info) ==
    IF info.Type = "cask" THEN <<"brew", "install", "--cask", info.Name>>
    ELSE <<"brew", "install", info.Name>>
RemoveAll(info) == <<"os.RemoveAll", info.ManualPath>>

\* a change was tried: what, on which package, and whether it succeeded
Change(what, name, a, good) == [action |-> what, pkg |-> name, argv |-> a, ok |-> good]

\* where the Action goes after the offer `stage` is dealt with
AfterStage(stage, infos) ==
    IF stage = "survey" /\ packagesToUpgrade(infos) # <<>> THEN "ask upgrades"
    ELSE IF stage \in {"survey", "upgrades"} /\ packagesToMigrate(infos) # <<>>
    THEN "ask migrations"
    ELSE IF stage \in {"survey", "upgrades", "migrations"} /\ packagesToInstall(infos) # <<>>
    THEN "ask installs"
    ELSE "done"

InitSetup ==
    /\ AIOff
    /\ TemplateOff
    /\ home = ""
    /\ fs = <<>>
    /\ ScaffoldOff
    /\ ShellOff
    /\ brewFound \in BOOLEAN
    /\ world \in [1..Len(RequiredPackages) -> UNION {Situations(RequiredPackages[i]) :
                                                        i \in 1..Len(RequiredPackages)}]
    /\ \A i \in 1..Len(RequiredPackages) : world[i] \in Situations(RequiredPackages[i])
    /\ setupPc = "start"
    /\ packageInfos = <<>>
    /\ asked = <<>>
    /\ executed = <<>>
    /\ todo = <<>>
    /\ setupErr = Nil

\* the Action returns err
SetupReturn(err) ==
    /\ setupPc' = "done"
    /\ setupErr' = err

\* the confirmation of `category` is asked and rd is read
Ask(category, rd) ==
    asked' = Append(asked, [category |-> category, response |-> rd.response, err |-> rd.err])

\* checkHomebrewInstalled
SetupCheckHomebrew ==
    /\ setupPc = "start"
    /\ setupPc' = IF brewFound THEN "survey" ELSE "ask homebrew"
    /\ UNCHANGED <<brewFound, world, packageInfos, asked, executed, todo, setupErr>>
    /\ UNCHANGED <<aiVars, tplVars, scVars, shVars>>

\* Homebrew is not installed: the offer to install it
AskHomebrew ==
    /\ setupPc = "ask homebrew"
    /\ \E rd \in Reads :
          /\ Ask("homebrew", rd)
          /\ IF promptConfirmation(rd).err # Nil
             THEN SetupReturn(<<"error reading input">> \o promptConfirmation(rd).err)
             ELSE IF ~promptConfirmation(rd).confirm
             THEN SetupReturn(<<"Homebrew installation cancelled">>)
             ELSE setupPc' = "installHomebrew" /\ UNCHANGED setupErr
    /\ UNCHANGED <<brewFound, world, packageInfos, executed, todo>>
    /\ UNCHANGED <<aiVars, tplVars, scVars, shVars>>

\* installHomebrew: the installation script runs
InstallHomebrew ==
    /\ setupPc = "installHomebrew"
    /\ \E r \in RunInteractive(InstallScript) :
          /\ executed' = Append(executed,
                                Change("install homebrew", "", InstallScript, ~Failed(r)))
          /\ IF Failed(r)
             THEN SetupReturn(<<"failed to install Homebrew">> \o r.err)
             ELSE setupPc' = "survey" /\ UNCHANGED setupErr
    /\ UNCHANGED <<brewFound, world, packageInfos, asked, todo>>
    /\ UNCHANGED <<aiVars, tplVars, scVars, shVars>>

\* the loop over RequiredPackages and the summary table; nothing is changed
SurveyPackages ==
    /\ setupPc = "survey"
    /\ packageInfos' = [i \in 1..Len(RequiredPackages) |->
                           PackageInfoOf(RequiredPackages[i], world[i])]
    /\ IF AfterStage("survey", packageInfos') = "done"
       THEN SetupReturn(Nil)
       ELSE setupPc' = AfterStage("survey", packageInfos') /\ UNCHANGED setupErr
    /\ UNCHANGED <<brewFound, world, asked, executed, todo>>
    /\ UNCHANGED <<aiVars, tplVars, scVars, shVars>>

\* one of the three offers: the question, and on a yes the loop over list
Offer(category, stage, loop, list) ==
    /\ \E rd \in Reads :
          /\ Ask(category, rd)
          /\ IF promptConfirmation(rd).err # Nil
             THEN /\ SetupReturn(<<"error reading input">> \o promptConfirmation(rd).err)
                  /\ UNCHANGED todo
             ELSE IF promptConfirmation(rd).confirm
             THEN /\ todo' = list
                  /\ setupPc' = loop
                  /\ UNCHANGED setupErr
             ELSE IF AfterStage(stage, packageInfos) = "done"
             THEN SetupReturn(Nil) /\ UNCHANGED todo
             ELSE /\ setupPc' = AfterStage(stage, packageInfos)
                  /\ UNCHANGED <<todo, setupErr>>
    /\ UNCHANGED <<brewFound, world, packageInfos, executed>>
    /\ UNCHANGED <<aiVars, tplVars, scVars, shVars>>

\* one turn of a loop is over: the next package, or what follows the loop
NextTurn(stage) ==
    /\ todo' = Tail(todo)
    /\ IF Tail(todo) # <<>> THEN UNCHANGED <<setupPc, setupErr>>
       ELSE IF AfterStage(stage, packageInfos) = "done" THEN SetupReturn(Nil)
       ELSE setupPc' = AfterStage(stage, packageInfos) /\ UNCHANGED setupErr
    /\ UNCHANGED <<brewFound, world, packageInfos, asked>>
    /\ UNCHANGED <<aiVars, tplVars, scVars, shVars>>

\* "Would you like to upgrade these packages?"
AskUpgrades ==
    /\ setupPc = "ask upgrades"
    /\ Offer("upgrades", "upgrades", "upgrade", packagesToUpgrade(packageInfos))

\* upgradePackage for the next package; an error is printed and the loop goes on
UpgradeOne ==
    /\ setupPc = "upgrade"
    /\ \E r \in RunInteractive(BrewUpgrade(Head(todo))) :
          executed' = Append(executed, Change("upgrade", Head(todo).Name,
                                              BrewUpgrade(Head(todo)), ~Failed(r)))
    /\ NextTurn("upgrades")

\* "Would you like to migrate these packages to Homebrew?"
AskMigrations ==
    /\ setupPc = "ask migrations"
    /\ Offer("migrations", "migrations", "migrate", packagesToMigrate(packageInfos))

\* the migration of the next package: a formula is installed alongside; of a
\* cask the manual installation is removed and, if that worked, the package
\* installed
MigrateOne ==
    /\ setupPc = "migrate"
    /\ LET info == Head(todo) IN
       IF info.Type = "formula"
       THEN \E r \in RunInteractive(BrewInstall(info)) :
               executed' = Append(executed, Change("install", info.Name, BrewInstall(info),
                                                   ~Failed(r)))
       ELSE \/ executed' = Append(executed, Change("remove", info.Name, RemoveAll(info), FALSE))
            \/ \E r \in RunInteractive(BrewInstall(info)) :
                  executed' = executed
                              \o <<Change("remove", info.Name, RemoveAll(info), TRUE),
                                   Change("install", info.Name, BrewInstall(info), ~Failed(r))>>
    /\ NextTurn("migrations")

\* "Would you like to install these packages?"
AskInstalls ==
    /\ setupPc = "ask installs"
    /\ Offer("installs", "installs", "install", packagesToInstall(packageInfos))

\* installPackage for the next package; an error is printed and the loop goes on
InstallOne ==
    /\ setupPc = "install"
    /\ \E r \in RunInteractive(BrewInstall(Head(todo))) :
          executed' = Append(executed, Change("install", Head(todo).Name,
                                              BrewInstall(Head(todo)), ~Failed(r)))
    /\ NextTurn("installs")

NextSetup ==
    \/ SetupCheckHomebrew
    \/ AskHomebrew
    \/ InstallHomebrew
    \/ SurveyPackages
    \/ AskUpgrades
    \/ UpgradeOne
    \/ AskMigrations
    \/ MigrateOne
    \/ AskInstalls
    \/ InstallOne

SpecSetup == InitSetup /\ [][NextSetup]_vars

(***************************************************************************)
(* Properties of the dispatcher, checked under SpecAI.                     *)
(***************************************************************************)
Issued(c) == \E i \in 1..Len(calls) : calls[i] = c

\* the probe answered and the service counts as running
ProbeOK == probeResp # NoProbe /\ probeResp.err = Nil /\ probeResp.StatusCode = StatusOK
\* the probe answered and the service counts as not running
ProbeBad == probeResp # NoProbe /\ ~(probeResp.err = Nil /\ probeResp.StatusCode = StatusOK)
\* the generation request answered 200 with a decodable body and a non-empty field
GenerateGood ==
    /\ genResp # NoGenerate
    /\ genResp.err = Nil
    /\ genResp.StatusCode = StatusOK
    /\ genResp.body.json
    /\ genResp.body.response # ""

\* the members of an error chain
Messages(e) == {e[i] : i \in 1..Len(e)}

\* C1: with force-local false and a non-empty key, when the remote call failed
\* and the local call returned a non-empty text with a nil error, callAI
\* returns exactly that text with a nil error, and no message of the remote
\* error is in the returned error or is the returned value.
C1_FallbackReturnsLocal ==
    (/\ pc = "done"
     /\ ~forceLocal /\ apiKey # ""
     /\ claudeRet # NoRet /\ claudeRet.err # Nil
     /\ ollamaRet # NoRet /\ ollamaRet.err = Nil /\ ollamaRet.response # "")
    => /\ ret.response = ollamaRet.response
       /\ ret.response = genResp.body.response
       /\ ret.err = Nil
       /\ Messages(claudeRet.err) \cap (Messages(ret.err) \cup {ret.response}) = {}

C1_Witness ==
    /\ pc = "done"
    /\ ~forceLocal /\ apiKey # ""
    /\ claudeRet.err = <<"claude api error", "status 529">>
    /\ ret = [response |-> "local text A", err |-> Nil]

\* C2: with force-local true, an unreachable local service makes callAI
\* return the "ollama is not running" error, and the remote call is never
\* issued, whether or not the key is set.
C2_ForceLocalNeverRemote ==
    forceLocal =>
       /\ ~Issued("claude messages")
       /\ remote = "NotAttempted"
       /\ message = NoMessage
       /\ pc # "callClaude"
       /\ (pc = "done" /\ ProbeBad) => (ret.err = ErrNotRunning /\ ret.response = "")

C2_Witness ==
    /\ forceLocal /\ apiKey # ""
    /\ pc = "done"
    /\ ProbeBad
    /\ ret.err = ErrNotRunning

\* C3: with force-local false and a key present, the remote call is the first
\* external call; when it succeeds callAI returns the remote text at once and
\* neither the probe nor the generation request is issued.
C3_RemoteFirstAndShortCircuit ==
    (~forceLocal /\ apiKey # "") =>
       /\ (calls # <<>> => calls[1] = "claude messages")
       /\ (claudeRet # NoRet /\ claudeRet.err = Nil) =>
             /\ pc = "done"
             /\ ret = [response |-> message.Content[1], err |-> Nil]
             /\ calls = <<"claude messages">>
             /\ probeResp = NoProbe /\ genResp = NoGenerate

C3_Witness ==
    /\ ~forceLocal /\ apiKey # ""
    /\ pc = "done"
    /\ calls = <<"claude messages">>
    /\ ret = [response |-> "remote text B", err |-> Nil]

\* C4: callAI returns an error exactly when the local path failed and the
\* remote path was skipped or failed; a successful result is exactly the
\* remote response or exactly the local response.
C4_ErrorIffBothUnavailable ==
    pc = "done" =>
       /\ (ret.err # Nil) <=> (local = "Failed" /\ remote \in {"NotAttempted", "Failed"})
       /\ ret.err = Nil =>
            \/ /\ remote = "Succeeded" /\ local = "NotAttempted"
               /\ ret.response = message.Content[1]
            \/ /\ remote # "Succeeded" /\ local = "Succeeded"
               /\ ret.response = genResp.body.response

C4_Witness ==
    /\ pc = "done"
    /\ remote = "Failed" /\ local = "Failed"
    /\ genResp # NoGenerate
    /\ ret.err # Nil

\* C5: every generation request is preceded by the probe; when the probe
\* errors or answers a status other than 200, callOllama fails at once with
\* the "not running" error and the generation request is never issued.
C5_ProbeBeforeGenerate ==
    /\ \A i \in 1..Len(calls) :
          calls[i] = "POST /api/generate" => \E j \in 1..(i - 1) : calls[j] = "GET /api/tags"
    /\ Issued("POST /api/generate") => ProbeOK
    /\ ProbeBad =>
          /\ ~Issued("POST /api/generate")
          /\ genResp = NoGenerate
          /\ pc = "done"
          /\ ollamaRet = [response |-> "", err |-> ErrNotRunning]

C5_Witness ==
    /\ probeResp = [err |-> Nil, StatusCode |-> 500]
    /\ pc = "done"
    /\ ollamaRet.err = ErrNotRunning

\* C6: after a successful probe, callOllama returns the response field when
\* the status is 200, the body decodes and the field is non-empty; a non-200
\* status, an undecodable body or an empty field each yield an error; an
\* empty text never comes with a nil error.
C6_GenerateResult ==
    /\ genResp # NoGenerate =>
          /\ ProbeOK
          /\ GenerateGood => ollamaRet = [response |-> genResp.body.response, err |-> Nil]
          /\ (genResp.err = Nil /\ genResp.StatusCode # StatusOK) => ollamaRet.err # Nil
          /\ (genResp.err = Nil /\ ~genResp.body.json) => ollamaRet.err # Nil
          /\ (genResp.err = Nil /\ genResp.body.response = "") => ollamaRet.err # Nil
    /\ ollamaRet # NoRet => ~(ollamaRet.err = Nil /\ ollamaRet.response = "")

C6_Witness ==
    /\ genResp = [err |-> Nil, StatusCode |-> StatusOK, body |-> [json |-> TRUE, response |-> ""]]
    /\ ollamaRet.err = <<"empty response from ollama">>

\* C7: each provider leaves NotAttempted at most once, for Succeeded or
\* Failed, and never changes afterwards; each external call is issued at
\* most once; the remote provider is attempted only with force-local false and
\* a non-empty key; the local provider is attempted only once the remote was
\* skipped or has failed.
C7_AttemptStates ==
    /\ remote \in {"NotAttempted", "Succeeded", "Failed"}
    /\ local \in {"NotAttempted", "Succeeded", "Failed"}
    /\ \A i, j \in 1..Len(calls) : calls[i] = calls[j] => i = j
    /\ (remote # "NotAttempted" \/ Issued("claude messages")) => (~forceLocal /\ apiKey # "")
    /\ (local # "NotAttempted" \/ Issued("GET /api/tags") \/ pc \in {"callOllama", "generate"}) =>
          \/ remote = "Failed"
          \/ remote = "NotAttempted" /\ (forceLocal \/ apiKey = "") /\ ~Issued("claude messages")

C7_AttemptSteps ==
    /\ remote # "NotAttempted" => remote' = remote
    /\ local # "NotAttempted" => local' = local
    /\ remote' # remote => local = "NotAttempted" /\ ~Issued("GET /api/tags")
    /\ Len(calls') <= Len(calls) + 1

C7_NoRetryFixedOrder == [](C7_AttemptStates) /\ [][C7_AttemptSteps]_vars

C7_Witness ==
    /\ remote = "Failed"
    /\ local = "Succeeded"
    /\ calls = <<"claude messages", "GET /api/tags", "POST /api/generate">>

(***************************************************************************)
(* Properties of the template engine, checked under SpecTemplate.          *)
(***************************************************************************)
Loaded == tpc # "start"
ErrIs(e, msg) == e # Nil /\ Head(e) = msg

\* the state of the file LoadProviderTemplate is asked for: the explicit
\* path, or <home>/.cc/terraform-templates/<provider>.yaml
HomeUnresolved == configPath = NoPath /\ home = ""
RequestedPath ==
    IF configPath # NoPath THEN configPath
    ELSE <<home, ".cc", "terraform-templates", provider, ".yaml">>
RequestedFile == IF RequestedPath \in DOMAIN fs THEN fs[RequestedPath] ELSE Missing

\* C8: whenever the resolved path does not exist (os.Stat reports that it
\* does not exist), LoadProviderTemplate returns a zero-value config and a
\* nil error, for an explicit path and for the path derived from the home
\* directory and the provider alike.
C8_MissingFileIsEmptyConfig ==
    (Loaded /\ ~HomeUnresolved /\ RequestedFile.kind = "missing")
    => /\ templateConfig = <<ZeroConfig>>
       /\ loadErr = Nil
       /\ tpc = "loaded"

C8_Witness ==
    /\ tpc = "loaded"
    /\ configPath = NoPath /\ home = "/home/dev" /\ provider = "azure"
    /\ DOMAIN fs = {<<"/home/dev", ".cc", "terraform-templates", "aws", ".yaml">>}
    /\ fs[<<"/home/dev", ".cc", "terraform-templates", "aws", ".yaml">>].kind = "file"
    /\ templateConfig = <<ZeroConfig>>
    /\ loadErr = Nil

\* C9 as stated: an error is returned only for a YAML parse failure; a
\* missing file, a file that is present but unreadable and an unresolvable
\* home directory all give an empty config and a nil error.
C9_OnlyParseFailureIsError ==
    Loaded =>
       /\ loadErr # Nil => ErrIs(loadErr, "failed to parse config file")
       /\ (HomeUnresolved \/ RequestedFile.kind \in {"missing", "unreadable"})
             => (templateConfig = <<ZeroConfig>> /\ loadErr = Nil)

\* C9 amended: LoadProviderTemplate returns an error for a YAML parse
\* failure, for a path that is not reported missing and cannot be read, and
\* for an empty configPath with an unresolvable home directory; each error
\* comes with a nil config.  Only a missing file gives an empty config with
\* a nil error, and a file that parses gives its content.
C9_LoadErrors ==
    Loaded =>
       IF HomeUnresolved
       THEN /\ ErrIs(loadErr, "failed to get home directory")
            /\ templateConfig = NilConfig
       ELSE IF RequestedFile.kind = "missing"
       THEN templateConfig = <<ZeroConfig>> /\ loadErr = Nil
       ELSE IF RequestedFile.kind \in {"statfails", "unreadable"}
       THEN /\ ErrIs(loadErr, "failed to read config file")
            /\ templateConfig = NilConfig
       ELSE IF ~RequestedFile.yaml
       THEN /\ ErrIs(loadErr, "failed to parse config file")
            /\ templateConfig = NilConfig
       ELSE templateConfig = <<RequestedFile.doc>> /\ loadErr = Nil

C9_Witness ==
    /\ tpc = "failed"
    /\ configPath = CustomPath
    /\ fs = [p \in {CustomPath} |-> Unreadable]
    /\ loadErr = <<"failed to read config file", "read failed">>

\* C10: with its section of the config empty, each generator emits a fixed
\* placeholder, the same for every value of the other fields:
\* GenerateVariablesBlock, GenerateOutputsBlock and GenerateTfvarsBlock one
\* constant text each, GenerateDataBlock a text fixed by the provider
\* argument (distinct examples for aws, azure and gcp, the header alone for
\* any other value).
C10_Placeholders ==
    tpc = "loaded" =>
       LET c == templateConfig[1] IN
       /\ (out.gen = "variables" /\ Len(c.Variables) = 0) =>
             /\ out.text = VariablesPlaceholder
             /\ \A c2 \in FewConfigs : Len(c2.Variables) = 0 => GenerateVariablesBlock(c2) = out.text
       /\ (out.gen = "outputs" /\ Len(c.Outputs) = 0) =>
             /\ out.text = OutputsPlaceholder
             /\ \A c2 \in FewConfigs : Len(c2.Outputs) = 0 => GenerateOutputsBlock(c2) = out.text
       /\ (out.gen = "tfvars" /\ DOMAIN c.Tfvars = {}) =>
             /\ out.text = TfvarsPlaceholder
             /\ \A c2 \in FewConfigs : DOMAIN c2.Tfvars = {} => GenerateTfvarsBlock(c2, <<>>) = out.text
       /\ (out.gen = "data" /\ Len(c.Data) = 0) =>
             /\ out.arg = "aws" => out.text = DataPlaceholderAws
             /\ out.arg = "azure" => out.text = DataPlaceholderAzure
             /\ out.arg = "gcp" => out.text = DataPlaceholderGcp
             /\ out.arg \notin {"aws", "azure", "gcp"} => out.text = <<"# Data source declarations", NL>>
             /\ \A c2 \in FewConfigs : Len(c2.Data) = 0 => GenerateDataBlock(c2, out.arg, <<>>) = out.text
       /\ Cardinality({DataPlaceholderAws, DataPlaceholderAzure, DataPlaceholderGcp,
                       DataPlaceholderDefault}) = 4

C10_Witness ==
    /\ tpc = "loaded"
    /\ out.gen = "data" /\ out.arg = "azure"
    /\ templateConfig[1].Data = <<>>
    /\ templateConfig[1].Variables # <<>>
    /\ templateConfig[1].Provider.Region # Empty
    /\ out.text = DataPlaceholderAzure

(***************************************************************************)
(* Reading a generated block back: its lines, and the stanzas in them.     *)
(***************************************************************************)
RECURSIVE LinesFrom(_, _, _)
LinesFrom(text, i, cur) ==
    IF i > Len(text) THEN <<cur>>
    ELSE IF text[i] = NL THEN <<cur>> \o LinesFrom(text, i + 1, <<>>)
    ELSE LinesFrom(text, i + 1, Append(cur, text[i]))

\* the lines of a text, split at its newlines
Lines(text) == LinesFrom(text, 1, <<>>)

StartsWith(line, prefix) ==
    Len(line) >= Len(prefix) /\ SubSeq(line, 1, Len(prefix)) = prefix
EndsWith(line, suffix) ==
    Len(line) >= Len(suffix) /\ SubSeq(line, Len(line) - Len(suffix) + 1, Len(line)) = suffix

\* the lines that open a stanza of the given kind, in the order of the text
OpensVariable(line) == StartsWith(line, <<"variable ", Q>>)
OpensOutput(line) == StartsWith(line, <<"output ", Q>>)
OpensData(line) == StartsWith(line, <<"data ", Q>>)
Closes(line) == line = <<"}">>
Openers(text, Opens(_)) == SelectSeq(Lines(text), Opens)
Closers(text) == SelectSeq(Lines(text), Closes)

\* C11: a block generated from N >= 1 variables, outputs or data sources
\* holds exactly N stanzas, and the i-th stanza of the text is opened with
\* the name (for a data source, the type and name) of the i-th entry of the
\* list: the order of the list is kept and no entry is dropped, merged or
\* repeated.
C11_OneStanzaPerEntryInOrder ==
    tpc = "loaded" =>
       LET c == templateConfig[1] IN
       /\ (out.gen = "variables" /\ Len(c.Variables) >= 1) =>
             /\ Openers(out.text, OpensVariable)
                   = [i \in 1..Len(c.Variables) |->
                         <<"variable ", Q>> \o c.Variables[i].Name \o <<Q, " {">>]
             /\ Len(Closers(out.text)) = Len(c.Variables)
       /\ (out.gen = "outputs" /\ Len(c.Outputs) >= 1) =>
             /\ Openers(out.text, OpensOutput)
                   = [i \in 1..Len(c.Outputs) |->
                         <<"output ", Q>> \o c.Outputs[i].Name \o <<Q, " {">>]
             /\ Len(Closers(out.text)) = Len(c.Outputs)
       /\ (out.gen = "data" /\ Len(c.Data) >= 1) =>
             /\ Openers(out.text, OpensData)
                   = [i \in 1..Len(c.Data) |->
                         <<"data ", Q>> \o c.Data[i].Type \o <<Q, " ", Q>>
                            \o c.Data[i].Name \o <<Q, " {">>]
             /\ Len(Closers(out.text)) = Len(c.Data)

C11_Witness ==
    /\ tpc = "loaded"
    /\ out.gen = "variables"
    /\ Len(templateConfig[1].Variables) = 2
    /\ templateConfig[1].Variables[1].Name = <<"note">>
    /\ templateConfig[1].Variables[2].Name = <<"region">>
    /\ Len(Openers(out.text, OpensVariable)) = 2

\* the inverse of the escapes of %q
RECURSIVE Unescape(_)
Unescape(body) ==
    IF body = <<>> THEN <<>>
    ELSE IF body[1] = BS /\ Len(body) >= 2 /\ body[2] \in {Q, BS, "n"}
    THEN <<(IF body[2] = "n" THEN NL ELSE body[2])>> \o Unescape(SubSeq(body, 3, Len(body)))
    ELSE <<body[1]>> \o Unescape(Tail(body))

\* the string a quoted literal stands for
Unquote(lit) ==
    IF Len(lit) >= 2 /\ Head(lit) = Q /\ lit[Len(lit)] = Q
    THEN Unescape(SubSeq(lit, 2, Len(lit) - 1))
    ELSE lit

\* the lines of each variable stanza: an opening line and what follows it
RECURSIVE VariableGroupsFrom(_, _, _)
VariableGroupsFrom(lines, i, groups) ==
    IF i > Len(lines) THEN groups
    ELSE IF OpensVariable(lines[i])
    THEN VariableGroupsFrom(lines, i + 1, Append(groups, <<lines[i]>>))
    ELSE IF groups = <<>> THEN VariableGroupsFrom(lines, i + 1, groups)
    ELSE VariableGroupsFrom(lines, i + 1,
                            [groups EXCEPT ![Len(groups)] = Append(@, lines[i])])

\* what follows prefix on the first line of the stanza that starts with it
FieldOf(group, prefix) ==
    LET hits == SelectSeq(group, LAMBDA l : StartsWith(l, prefix)) IN
    IF hits = <<>> THEN Empty ELSE SubSeq(hits[1], Len(prefix) + 1, Len(hits[1]))

ReadVariable(group) ==
    [Name |-> IF EndsWith(group[1], <<Q, " {">>)
              THEN SubSeq(group[1], 3, Len(group[1]) - 2)
              ELSE SubSeq(group[1], 3, Len(group[1])),
     Description |-> Unquote(FieldOf(group, <<"  description = ">>)),
     Type |-> FieldOf(group, <<"  type        = ">>),
     Default |-> FieldOf(group, <<"  default     = ">>)]

\* the variables read back from a block, stanza by stanza
ReadVariables(text) ==
    LET groups == VariableGroupsFrom(Lines(text), 1, <<>>) IN
    [i \in 1..Len(groups) |-> ReadVariable(groups[i])]

HasBreak(str) == \E i \in 1..Len(str) : str[i] = NL
SingleLine(v) == ~HasBreak(v.Name) /\ ~HasBreak(v.Type) /\ ~HasBreak(v.Default)

\* C12 as stated: for every config with a non-empty variables list, the
\* stanzas of the rendered block give back the fields of every entry, so a
\* block is the rendering of one list of variables only.
C12_RoundTripEveryConfig ==
    (tpc = "loaded" /\ out.gen = "variables" /\ Len(templateConfig[1].Variables) >= 1) =>
       \A vs \in VariableLists :
          GenerateVariablesBlock([templateConfig[1] EXCEPT !.Variables = vs]) = out.text
             => vs = templateConfig[1].Variables

\* C12: for every config with a non-empty variables list whose names, types
\* and defaults hold no line break, reading the stanzas of the rendered block
\* back gives, at each position i, the name, description, type and default of
\* entry i; a field whose line was left out because it was empty reads back
\* as the empty field.
C12_RoundTripSingleLine ==
    (tpc = "loaded" /\ out.gen = "variables" /\ Len(templateConfig[1].Variables) >= 1
       /\ \A i \in 1..Len(templateConfig[1].Variables) : SingleLine(templateConfig[1].Variables[i]))
    => ReadVariables(out.text) = templateConfig[1].Variables

C12_Witness ==
    /\ tpc = "loaded"
    /\ out.gen = "variables"
    /\ Len(templateConfig[1].Variables) = 2
    /\ templateConfig[1].Variables[1].Name = <<"note">>
    /\ HasBreak(templateConfig[1].Variables[1].Description)
    /\ templateConfig[1].Variables[1].Type = Empty
    /\ templateConfig[1].Variables[2].Default # Empty
    /\ ReadVariables(out.text) = templateConfig[1].Variables

(***************************************************************************)
(* The lines of a provider block.                                          *)
(***************************************************************************)
IsFeaturesLine(line) == line = <<"  features {}">>
IsSubscriptionLine(line) == StartsWith(line, <<"  subscription_id = ">>)
IsTenantLine(line) == StartsWith(line, <<"  tenant_id = ">>)
IsAzureLine(line) == IsFeaturesLine(line) \/ IsSubscriptionLine(line) \/ IsTenantLine(line)
IsRegionLine(line) == StartsWith(line, <<"  region = ">>)
IsProfileLine(line) == StartsWith(line, <<"  profile = ">>)
IsCredentialsLine(line) == StartsWith(line, <<"  shared_credentials_files = [">>)
IsProjectLine(line) == StartsWith(line, <<"  project = ">>)
IsZoneLine(line) == StartsWith(line, <<"  zone = ">>)

\* `  name = "value"`, written out
Quoted(name, value) == <<name, Q>> \o value \o <<Q>>
When(cond, line) == IF cond THEN <<line>> ELSE <<>>

ProviderOut == tpc = "loaded" /\ out.gen = "provider"

\* C13: in a provider block for "azurerm" there is a `features {}` line
\* exactly when the region is non-empty, a subscription_id line exactly when
\* the extra mapping has the key subscription_id, a tenant_id line exactly
\* when it has the key tenant_id; those present come in the order features,
\* subscription_id, tenant_id and after every region, profile and credentials
\* line.  A block for any other identifier has none of the three.
C13_AzureLines ==
    ProviderOut =>
       LET p == templateConfig[1].Provider
           L == Lines(out.text)
           azure == SelectSeq(L, IsAzureLine)
       IN  IF out.arg = "azurerm"
           THEN /\ azure = When(p.Region # Empty, <<"  features {}">>)
                           \o When("subscription_id" \in DOMAIN p.Extra,
                                   Quoted("  subscription_id = ",
                                          IF "subscription_id" \in DOMAIN p.Extra
                                          THEN p.Extra["subscription_id"] ELSE Empty))
                           \o When("tenant_id" \in DOMAIN p.Extra,
                                   Quoted("  tenant_id = ",
                                          IF "tenant_id" \in DOMAIN p.Extra
                                          THEN p.Extra["tenant_id"] ELSE Empty))
                /\ \A i, j \in 1..Len(L) :
                      (IsAzureLine(L[i])
                         /\ (IsRegionLine(L[j]) \/ IsProfileLine(L[j]) \/ IsCredentialsLine(L[j])))
                      => j < i
           ELSE azure = <<>>

C13_Witness ==
    /\ ProviderOut
    /\ out.arg = "azurerm"
    /\ templateConfig[1].Provider.Region # Empty
    /\ templateConfig[1].Provider.Credentials # Empty
    /\ {"subscription_id", "tenant_id"} \subseteq DOMAIN templateConfig[1].Provider.Extra
    /\ Len(SelectSeq(Lines(out.text), IsAzureLine)) = 3

\* the lines between the opening line and the closing brace
Body(L) == IF Len(L) >= 2 THEN SubSeq(L, 2, Len(L) - 1) ELSE <<>>

\* the region, profile and credentials lines a provider section calls for
FieldLines(p) ==
    When(p.Region # Empty, Quoted("  region = ", p.Region))
    \o When(p.Profile # Empty, Quoted("  profile = ", p.Profile))
    \o When(p.Credentials # Empty,
            <<"  shared_credentials_files = [", Q>> \o p.Credentials \o <<Q, "]">>)

\* the lines of the body after the first n
After(L, n) == IF Len(Body(L)) >= n THEN SubSeq(Body(L), n + 1, Len(Body(L))) ELSE <<>>

\* C14: for every config and identifier the provider block opens with
\* `provider "<identifier>" {` and closes with `}`; between them come first
\* the region, profile and credentials lines, each present exactly when its
\* field is non-empty and in that order, and after them only lines specific
\* to the provider: no further profile or credentials line, and a region
\* line only as google's extra.
C14_ProviderBlockShape ==
    ProviderOut =>
       LET p == templateConfig[1].Provider
           L == Lines(out.text)
           n == Len(FieldLines(p))
           rest == After(L, n)
       IN  /\ Len(L) >= 2
           /\ L[1] = <<"provider ", Q, out.arg, Q, " {">>
           /\ L[Len(L)] = <<"}">>
           /\ Len(Body(L)) >= n
           /\ SubSeq(Body(L), 1, n) = FieldLines(p)
           /\ \A k \in 1..Len(rest) :
                 /\ ~IsProfileLine(rest[k])
                 /\ ~IsCredentialsLine(rest[k])
                 /\ IsRegionLine(rest[k]) => out.arg = "google"
                 /\ \/ IsAzureLine(rest[k])
                    \/ IsProjectLine(rest[k]) \/ IsRegionLine(rest[k]) \/ IsZoneLine(rest[k])

C14_Witness ==
    /\ ProviderOut
    /\ out.arg = "aws"
    /\ templateConfig[1].Provider.Region # Empty
    /\ templateConfig[1].Provider.Profile # Empty
    /\ templateConfig[1].Provider.Credentials # Empty
    /\ DOMAIN templateConfig[1].Provider.Extra # {}
    /\ Len(Lines(out.text)) = 5

\* C15: in a provider block for "google" the lines after the region, profile
\* and credentials lines are a project, a region and a zone line, in that
\* order, one for each of the keys project, region, zone that the extra
\* mapping has, carrying the mapped value.  For any other identifier these
\* keys give no line: no project line, no zone line, and no region line but
\* the one of the region field.
C15_GoogleLines ==
    ProviderOut =>
       LET p == templateConfig[1].Provider
           L == Lines(out.text)
           Extra(k) == IF k \in DOMAIN p.Extra THEN p.Extra[k] ELSE Empty
       IN  IF out.arg = "google"
           THEN After(L, Len(FieldLines(p)))
                   = When("project" \in DOMAIN p.Extra, Quoted("  project = ", Extra("project")))
                     \o When("region" \in DOMAIN p.Extra, Quoted("  region = ", Extra("region")))
                     \o When("zone" \in DOMAIN p.Extra, Quoted("  zone = ", Extra("zone")))
           ELSE /\ SelectSeq(L, IsProjectLine) = <<>>
                /\ SelectSeq(L, IsZoneLine) = <<>>
                /\ SelectSeq(L, IsRegionLine)
                      = When(p.Region # Empty, Quoted("  region = ", p.Region))

C15_Witness ==
    /\ ProviderOut
    /\ out.arg = "google"
    /\ templateConfig[1].Provider.Region # Empty
    /\ DOMAIN templateConfig[1].Provider.Extra = {"project", "region", "zone"}
    /\ templateConfig[1].Provider.Extra["zone"] = Empty
    /\ Len(SelectSeq(Lines(out.text), IsRegionLine)) = 2
    /\ Len(SelectSeq(Lines(out.text), IsZoneLine)) = 1

\* the lines of a text after its first, as a set
LinesAfterHeader(text) == {Lines(text)[i] : i \in 2..Len(Lines(text))}

\* C16: for a config whose tfvars mapping has K >= 1 entries the block is the
\* header line followed by exactly K lines, one `key = "value"` line for each
\* key of the mapping.  The order of the K lines is whatever order the map
\* was visited in; in every order the same lines come out, each once.
C16_TfvarsLines ==
    (tpc = "loaded" /\ out.gen = "tfvars" /\ DOMAIN templateConfig[1].Tfvars # {}) =>
       LET t == templateConfig[1].Tfvars
           K == Cardinality(DOMAIN t)
           L == Lines(out.text)
       IN  /\ L[1] = <<"# Variable assignments">>
           /\ Len(L) = K + 1
           /\ LinesAfterHeader(out.text) = {<<k, " = ">> \o Quote(t[k]) : k \in DOMAIN t}
           /\ Cardinality(LinesAfterHeader(out.text)) = K
           /\ \A ord \in Perms(DOMAIN t) :
                 LET M == Lines(GenerateTfvarsBlock(templateConfig[1], ord)) IN
                 /\ Len(M) = Len(L)
                 /\ M[1] = L[1]
                 /\ LinesAfterHeader(GenerateTfvarsBlock(templateConfig[1], ord))
                       = LinesAfterHeader(out.text)

C16_Witness ==
    /\ tpc = "loaded"
    /\ out.gen = "tfvars"
    /\ DOMAIN templateConfig[1].Tfvars = {"owner", "region"}
    /\ Len(Lines(out.text)) = 3
    /\ Lines(out.text)[2] = <<"region", " = ", Q, Q>>
    /\ Lines(out.text)[3][1] = "owner"

\* sub occurs in text
Contains(text, sub) ==
    \E i \in 1..(Len(text) - Len(sub) + 1) : SubSeq(text, i, i + Len(sub) - 1) = sub

\* lit is a double-quoted literal that stands for str
InQuotes(lit, str) ==
    /\ Len(lit) >= 2
    /\ Head(lit) = Q
    /\ lit[Len(lit)] = Q
    /\ Unescape(SubSeq(lit, 2, Len(lit) - 1)) = str

\* lit is str between two double quotes
BetweenQuotes(lit, str) == lit = <<Q>> \o str \o <<Q>>

\* some line of L is prefix followed by a literal for which Lit holds
HasLine(L, prefix, Lit(_)) ==
    \E k \in 1..Len(L) :
       /\ StartsWith(L[k], prefix)
       /\ Lit(SubSeq(L[k], Len(prefix) + 1, Len(L[k])))

\* C17: string values are written inside double quotes: the description of
\* a variable and of an output, the value of a tfvars entry, the region,
\* profile and credentials of a provider and its extras.  The type and the
\* default of a variable and the value of an output are written as they are,
\* with no quote added.
C17_QuotedAndVerbatim ==
    tpc = "loaded" =>
       LET c == templateConfig[1]
           L == Lines(out.text)
           text == out.text \o <<NL>>
       IN
       /\ out.gen = "variables" =>
             \A i \in 1..Len(c.Variables) :
                LET v == c.Variables[i] IN
                /\ v.Description # Empty =>
                      HasLine(L, <<"  description = ">>, LAMBDA lit : InQuotes(lit, v.Description))
                /\ v.Type # Empty =>
                      Contains(text, <<NL, "  type        = ">> \o v.Type \o <<NL>>)
                /\ v.Default # Empty =>
                      Contains(text, <<NL, "  default     = ">> \o v.Default \o <<NL>>)
       /\ out.gen = "outputs" =>
             \A i \in 1..Len(c.Outputs) :
                LET o == c.Outputs[i] IN
                /\ o.Description # Empty =>
                      HasLine(L, <<"  description = ">>, LAMBDA lit : InQuotes(lit, o.Description))
                /\ o.Value # Empty =>
                      Contains(text, <<NL, "  value       = ">> \o o.Value \o <<NL>>)
       /\ out.gen = "tfvars" =>
             \A k \in DOMAIN c.Tfvars :
                HasLine(L, <<k, " = ">>, LAMBDA lit : InQuotes(lit, c.Tfvars[k]))
       /\ out.gen = "provider" =>
             /\ c.Provider.Region # Empty =>
                   HasLine(L, <<"  region = ">>, LAMBDA lit : BetweenQuotes(lit, c.Provider.Region))
             /\ c.Provider.Profile # Empty =>
                   HasLine(L, <<"  profile = ">>, LAMBDA lit : BetweenQuotes(lit, c.Provider.Profile))
             /\ c.Provider.Credentials # Empty =>
                   HasLine(L, <<"  shared_credentials_files = [">>,
                           LAMBDA lit : lit = <<Q>> \o c.Provider.Credentials \o <<Q, "]">>)
             /\ \A k \in DOMAIN c.Provider.Extra :
                   (\/ out.arg = "azurerm" /\ k \in {"subscription_id", "tenant_id"}
                    \/ out.arg = "google" /\ k \in {"project", "region", "zone"})
                   => HasLine(L, <<"  " \o k \o " = ">>,
                              LAMBDA lit : BetweenQuotes(lit, c.Provider.Extra[k]))

C17_Witness ==
    /\ tpc = "loaded"
    /\ out.gen = "variables"
    /\ Len(templateConfig[1].Variables) = 2
    /\ templateConfig[1].Variables[1].Name = <<"note">>
    /\ templateConfig[1].Variables[2].Type = <<"string">>
    /\ templateConfig[1].Variables[2].Default = <<Q, "us-east-1", Q>>
    /\ Contains(out.text, <<"  type        = ", "string", NL>>)
    /\ Contains(out.text, <<"  description = ", Q, "the ", BS, Q, "owner">>)

\* the lines of a text, as a set
LineSet(text) == {Lines(text)[i] : i \in 1..Len(Lines(text))}

\* what LoadProviderTemplate returns for the scaffold's arguments now
Fresh == LoadProviderTemplate(configPath, provider, home, fs).config

\* the last block is, line for line, a rendering of the config c
RendersFrom(c) ==
    /\ out.gen = "provider" => LineSet(out.text) = LineSet(GenerateProviderBlock(c, out.arg))
    /\ out.gen = "variables" => LineSet(out.text) = LineSet(GenerateVariablesBlock(c))
    /\ out.gen = "outputs" => LineSet(out.text) = LineSet(GenerateOutputsBlock(c))
    /\ out.gen = "data" =>
          \A ords \in DataOrders(c.Data) :
             LineSet(out.text) = LineSet(GenerateDataBlock(c, out.arg, ords))
    /\ out.gen = "tfvars" =>
          \A ord \in Perms(DOMAIN c.Tfvars) :
             LineSet(out.text) = LineSet(GenerateTfvarsBlock(c, ord))

\* C18: the five generators are pure.  A call of any of them leaves the
\* loaded config and the files on disk as they were, so after any sequence
\* of calls, in any order and with repeats, the config is still the one
\* LoadProviderTemplate returned and every block has the lines that a first
\* call on the freshly loaded config gives.
C18_GeneratorsArePure ==
    /\ [][tpc = "loaded" => (templateConfig' = templateConfig /\ fs' = fs)]_vars
    /\ [](tpc = "loaded" =>
             /\ templateConfig = Fresh
             /\ RendersFrom(Fresh[1]))

C18_Witness ==
    /\ tpc = "loaded"
    /\ out.gen = "data"
    /\ templateConfig = Fresh
    /\ Len(templateConfig[1].Data) = 2
    /\ templateConfig[1].Variables # <<>>
    /\ templateConfig[1].Tfvars # <<>>
    /\ \E i \in 1..2 : DOMAIN templateConfig[1].Data[i].Config = {"id", "default"}
    /\ RendersFrom(Fresh[1])

(***************************************************************************)
(* Properties of the scaffolding, checked under SpecScaffold.              *)
(***************************************************************************)
\* the command's function was handed a provider it does not know, or none
InvalidInput ==
    \/ cmd = "init-dir" /\ providers[1] \notin ValidProviders
    \/ cmd = "new" /\ providers = <<>>
    \/ cmd = "new" /\ \E i \in 1..Len(providers) : providers[i] \notin ValidProviders

\* no directory was created, no file written and no template loaded
NoEffect ==
    /\ dirs = {}
    /\ disk = <<>>
    /\ tpc = "start"
    /\ templateConfig = NilConfig
    /\ toWrite = <<>>

\* C19: invalid input is rejected before any external effect.
\* scaffoldTerraformDir with a provider outside {aws, azure, gcp} returns its
\* error with no directory created, no template loaded and no file written;
\* scaffoldMultiProviderResource with an empty provider list, or with an
\* invalid provider at any position of the list, returns its error with no
\* resource directory, README or provider directory created.
C19_InvalidInputNoEffect ==
    InvalidInput =>
       /\ NoEffect
       /\ spc \in {"scaffoldTerraformDir", "scaffoldMultiProviderResource", "done"}
       /\ spc = "done" =>
             IF cmd = "init-dir"
             THEN scaffoldErr = <<"provider must be 'aws', 'azure', or 'gcp'">>
             ELSE IF providers = <<>>
             THEN scaffoldErr = <<"at least one provider must be specified">>
             ELSE \E i \in 1..Len(providers) :
                     /\ providers[i] \notin ValidProviders
                     /\ scaffoldErr = <<"invalid provider: " \o providers[i]>>

C19_Witness ==
    /\ cmd = "new"
    /\ Len(providers) = 3
    /\ providers[1] = "aws" /\ providers[2] = "gcp" /\ providers[3] = "oci"
    /\ basePath = <<"infra">>
    /\ spc = "done"
    /\ scaffoldErr = <<"invalid provider: oci">>
    /\ NoEffect

\* the files of the six names in the directory of the scaffold at hand
WrittenHere ==
    {f \in FileNames :
        JoinPath(ValidatePath(DirFor(provider), TRUE).path, <<f>>) \in DOMAIN disk}

\* LoadProviderTemplate was called and could not parse the file
ParseFailed == tpc = "failed" /\ ErrIs(loadErr, "failed to parse config file")

\* C20: a template that does not parse is fatal to the scaffold.  When
\* LoadProviderTemplate fails to parse the file, scaffoldTerraformDir returns
\* an error that carries the parse error, and none of version.tf, main.tf,
\* input.tf, output.tf, data.tf and terraform.tfvars is written in its
\* directory: no placeholder content takes the template's place.
C20_ParseErrorIsFatal ==
    ParseFailed =>
       /\ spc = "done"
       /\ EndsWith(scaffoldErr, <<"failed to load template config">> \o loadErr)
       /\ WrittenHere = {}
       /\ toWrite = <<>>

C20_Witness ==
    /\ ParseFailed
    /\ cmd = "new"
    /\ idx = 2
    /\ spc = "done"
    /\ scaffoldErr = <<"failed to scaffold azure directory", "failed to load template config">>
                     \o loadErr
    /\ Len(loadErr) = 2
    /\ WrittenHere = {}
    /\ Cardinality(DOMAIN disk) = 7

(***************************************************************************)
(* Further properties of the dispatcher, checked under SpecAI.             *)
(***************************************************************************)
\* every external call made so far failed, the generation request was not
\* issued, and if callAI returned it returned an error and no explanation
CancelledOutcome ==
    /\ message # NoMessage => message.err # Nil
    /\ probeResp # NoProbe => probeResp.err # Nil
    /\ genResp = NoGenerate
    /\ ~Issued("POST /api/generate")
    /\ pc = "done" => (ret.err # Nil /\ ret.response = "")

\* C21: the caller's cancellation reaches every external call of the
\* dispatcher.  If the context is already cancelled or past its deadline when
\* callAI is invoked, every external call callAI makes fails, callAI returns
\* an error and never an explanation, and the local generation request is
\* never issued.
C21_CancelledContextFailsEveryCall == ctxDone => [](CancelledOutcome)

C21_Witness ==
    /\ ctxDone
    /\ pc = "done"
    /\ calls = <<"claude messages", "GET /api/tags">>
    /\ message.err = CtxError
    /\ probeResp.err = CtxError
    /\ ret = [response |-> "", err |-> ErrNotRunning]

(***************************************************************************)
(* Further properties of the scaffolding, checked under SpecScaffold.      *)
(***************************************************************************)
\* the provider identifier that belongs to a provider name
IdentifierOf(p) ==
    CASE p = "aws" -> "aws"
      [] p = "azure" -> "azurerm"
      [] p = "gcp" -> "google"
      [] OTHER -> "none"

\* the directory of provider p and the files of the six names found in it
SafeDir(p) == ValidatePath(DirFor(p), TRUE).path
FilesIn(p) == {f \in FileNames : JoinPath(SafeDir(p), <<f>>) \in DOMAIN disk}
FileAt(p, f) == disk[JoinPath(SafeDir(p), <<f>>)]

\* the template LoadProviderTemplate gives for provider p
TemplateFor(p) == LoadProviderTemplate(ConfigPathFor(p), p, home, fs)

\* the directory of p holds the six files, rendered from p's template
Complete(p) ==
    /\ FilesIn(p) = {"version.tf", "main.tf", "input.tf", "output.tf", "data.tf",
                     "terraform.tfvars"}
    /\ TemplateFor(p).err = Nil
    /\ LET c == TemplateFor(p).config[1] IN
       /\ FileAt(p, "main.tf") = GenerateProviderBlock(c, IdentifierOf(p))
       /\ StartsWith(FileAt(p, "main.tf"), <<"provider ", Q, IdentifierOf(p), Q, " {">>)
       /\ FileAt(p, "input.tf") = GenerateVariablesBlock(c)
       /\ FileAt(p, "output.tf") = GenerateOutputsBlock(c)
       /\ \E ords \in DataOrders(c.Data) :
             FileAt(p, "data.tf") = GenerateDataBlock(c, p, ords)
       /\ \E ord \in Perms(DOMAIN c.Tfvars) :
             FileAt(p, "terraform.tfvars") = GenerateTfvarsBlock(c, ord)
       /\ Contains(FileAt(p, "version.tf"), <<"    ", IdentifierOf(p), " = {", NL>>)
       /\ Contains(FileAt(p, "version.tf"), <<Q, "hashicorp/", IdentifierOf(p), Q, NL>>)

FailedAt ==
    IF scaffoldErr = Nil THEN 0
    ELSE LET at == {i \in 1..Len(providers) :
                      Head(scaffoldErr) = "failed to scaffold " \o providers[i] \o " directory"}
         IN  IF at = {} THEN 0 ELSE CHOOSE i \in at : TRUE

\* the README of the resource directory is on disk
ReadmeWritten ==
    JoinPath(ValidatePath(basePath, TRUE).path, <<ResourceName, "README.md">>) \in DOMAIN disk

\* nothing of provider p's directory exists
Untouched(p) == SafeDir(p) \notin dirs /\ FilesIn(p) = {}

\* the files and directories of this state are those of the next one too
NothingRemoved ==
    /\ dirs \subseteq dirs'
    /\ \A q \in DOMAIN disk : q \in DOMAIN disk' /\ disk'[q] = disk[q]

\* the README comes first and the providers follow in list order
InListOrder ==
    cmd = "new" =>
       \A j \in 1..Len(providers) :
          ~Untouched(providers[j]) =>
             /\ ReadmeWritten
             /\ \A i \in 1..(j - 1) : Complete(providers[i])

\* C27: scaffoldMultiProviderResource, once validation passed, writes the
\* README first and then scaffolds the provider directories one at a time in
\* list order, stopping at the first provider whose scaffold fails: when it
\* returns such an error for the provider at position k, every provider
\* before k has its complete set of six files, no provider after k has been
\* scaffolded, and nothing already written is rolled back.
C27_StopsAtFirstFailingProvider ==
    /\ [](InListOrder)
    /\ []((cmd = "new" /\ spc = "done" /\ FailedAt # 0) =>
            /\ ReadmeWritten
            /\ \A i \in 1..(FailedAt - 1) : Complete(providers[i])
            /\ \A i \in (FailedAt + 1)..Len(providers) : Untouched(providers[i]))
    /\ [][NothingRemoved]_vars

C27_Witness ==
    /\ cmd = "new"
    /\ spc = "done"
    /\ Len(providers) = 3
    /\ FailedAt = 2
    /\ scaffoldErr = <<"failed to scaffold " \o providers[2] \o " directory",
                       "failed to create output.tf", "write failed">>
    /\ Complete(providers[1])
    /\ FilesIn(providers[2]) = {"version.tf", "main.tf"}
    /\ Untouched(providers[3])

\* two invocations of GenerateDataBlock in a row, for the same provider, on
\* the same loaded template with a non-empty data list
DataBlockTwice ==
    /\ tpc = "loaded"
    /\ templateConfig[1].Data # <<>>
    /\ templateConfig' = templateConfig
    /\ out.gen = "data"
    /\ out'.gen = "data"
    /\ out'.arg = out.arg

\* C28: for a fixed config with a non-empty data list GenerateDataBlock is
\* deterministic: two invocations return the same text, the stanzas in list
\* order and the config key/value lines of each stanza in the same order on
\* every run.
C28_DataBlockDeterministic == [][DataBlockTwice => out'.text = out.text]_vars

\* C29: whenever callAI returns a nil error, the returned explanation is a
\* non-empty text, whichever provider produced it.
C29_NilErrorNonEmptyExplanation ==
    (pc = "done" /\ ret.err = Nil) => ret.response # ""

\* how many lines of L satisfy Is
CountLines(L, Is(_)) == Len(SelectSeq(L, Is))

\* no attribute of a provider block is set on two lines of L
EachAttributeOnce(L) ==
    /\ CountLines(L, IsRegionLine) <= 1
    /\ CountLines(L, IsProfileLine) <= 1
    /\ CountLines(L, IsCredentialsLine) <= 1
    /\ CountLines(L, IsFeaturesLine) <= 1
    /\ CountLines(L, IsSubscriptionLine) <= 1
    /\ CountLines(L, IsTenantLine) <= 1
    /\ CountLines(L, IsProjectLine) <= 1
    /\ CountLines(L, IsZoneLine) <= 1

\* C30: for every config and every provider identifier, the block returned
\* by GenerateProviderBlock assigns each attribute name at most once: no two
\* emitted lines set the same attribute; in particular region appears at
\* most once, also when both provider.region and extra["region"] are set.
C30_EachAttributeAtMostOnce ==
    ProviderOut => EachAttributeOnce(Lines(out.text))

(***************************************************************************)
(* Properties of the commands that run tools, checked under SpecShell.     *)
(***************************************************************************)
\* the positions of the log at which the command line a ran
RanAt(a) == {i \in DOMAIN ran : ran[i].argv = a}

\* a ran and succeeded at a position before i
SucceededBefore(a, i) == \E j \in RanAt(a) : j < i /\ ran[j].ok

\* a step that failed is the last one, and the command ended with an error
FailureEnds ==
    \A i \in DOMAIN ran :
       (~ran[i].ok /\ ran[i].argv # StashPop) =>
          /\ \A j \in DOMAIN ran : j > i => ran[j].argv = StashPop
          /\ gpc \in {"done", "deferred"}
          /\ toolErr # Nil

\* C24: in `git rebase <target>` the force push to origin is executed only
\* after all of these held, in this order: the current branch differs from
\* the target, the working tree has no uncommitted changes, the fetch of
\* origin target:target succeeded, the rebase succeeded.  The first failing
\* check or step ends the command with an error and no later step is run.
C24_PushOnlyAfterFetchAndRebase ==
    tool = "git rebase" =>
       /\ \A i \in DOMAIN ran :
             ran[i].argv[2] = "push" =>
                /\ ran[i].argv = PushForce(currentBranch)
                /\ currentBranch # argv[1]
                /\ ~hasChanges
                /\ \E b, st, f, r \in DOMAIN ran :
                      /\ b < st /\ st < f /\ f < r /\ r < i
                      /\ ran[b] = [argv |-> AbbrevRefHead, ok |-> TRUE]
                      /\ ran[st] = [argv |-> StatusPorcelain, ok |-> TRUE]
                      /\ ran[f] = [argv |-> Fetch(argv[1]), ok |-> TRUE]
                      /\ ran[r] = [argv |-> Rebase(argv[1]), ok |-> TRUE]
       /\ FailureEnds
       /\ (RanAt(AbbrevRefHead) # {} /\ ran[Len(ran)].ok /\ currentBranch = argv[1]) =>
             /\ gpc = "done"
             /\ toolErr = <<"cannot rebase branch onto itself">>
             /\ ran[Len(ran)].argv = AbbrevRefHead
       /\ hasChanges =>
             /\ gpc = "done"
             /\ toolErr # Nil
             /\ ran[Len(ran)].argv = StatusPorcelain

C24_Witness ==
    /\ tool = "git rebase"
    /\ argv = <<"main">>
    /\ gpc = "done"
    /\ toolErr = Nil
    /\ currentBranch = "feature/login"
    /\ ran = [i \in 1..6 |->
                [argv |-> <<RevParseGitDir, AbbrevRefHead, StatusPorcelain, Fetch("main"),
                            Rebase("main"), PushForce("feature/login")>>[i],
                 ok |-> TRUE]]

\* C25: in `git branch <name>`, uncommitted changes are stashed before the
\* default branch is checked out, and once the stash succeeded exactly one
\* `git stash pop` is run, as the last git command of the invocation, on
\* every exit path (success, or failure of checkout, pull or branch
\* creation).  Without uncommitted changes neither a stash nor a stash pop
\* is run.  If the stash itself fails, the command returns an error without
\* any checkout or stash pop.
C25_StashAroundCheckout ==
    tool = "git branch" =>
       /\ \A i \in DOMAIN ran :
             (hasChanges /\ ran[i].argv[2] = "checkout") =>
                SucceededBefore(Stash, i)
       /\ \A i \in RanAt(StashPop) : i = Len(ran) /\ gpc = "done" /\ SucceededBefore(Stash, i)
       /\ (gpc = "done" /\ SucceededBefore(Stash, Len(ran) + 1)) =>
             /\ Cardinality(RanAt(StashPop)) = 1
             /\ ran[Len(ran)].argv = StashPop
       /\ ~hasChanges => RanAt(Stash) = {} /\ RanAt(StashPop) = {}
       /\ \A i \in RanAt(Stash) :
             ~ran[i].ok =>
                /\ i = Len(ran)
                /\ gpc = "done"
                /\ toolErr = <<"failed to stash changes">> \o ExitError
                /\ \A j \in DOMAIN ran : ran[j].argv[2] # "checkout"
                /\ RanAt(StashPop) = {}

C25_Witness ==
    /\ tool = "git branch"
    /\ argv = <<"feature/login">>
    /\ gpc = "done"
    /\ hasChanges
    /\ defaultBranch = "develop"
    /\ toolErr = <<"failed to pull latest">> \o ExitError
    /\ Len(ran) = 7
    /\ ran[4] = [argv |-> Stash, ok |-> TRUE]
    /\ ran[5] = [argv |-> Checkout("develop"), ok |-> TRUE]
    /\ ran[6] = [argv |-> Pull, ok |-> FALSE]
    /\ ran[7].argv = StashPop

\* the four steps of terraform check, on the validated path
CheckSteps ==
    <<TerraformFmt(safePath), TerraformValidate(safePath), Tflint(safePath), Tfsec(safePath)>>

\* C26: terraform check runs its four steps in the fixed order terraform
\* fmt, terraform validate, tflint, tfsec on the validated path and stops
\* at the first failure: a step is run only if every earlier step
\* succeeded, and the command succeeds only if all four succeeded.
C26_CheckStopsAtFirstFailure ==
    tool = "terraform check" =>
       /\ Len(ran) <= 4
       /\ ran # <<>> => ValidatePath(pathFlag, TRUE) = [path |-> safePath, err |-> Nil]
       /\ \A i \in DOMAIN ran :
             /\ ran[i].argv = CheckSteps[i]
             /\ \A j \in 1..(i - 1) : ran[j].ok
       /\ FailureEnds
       /\ (gpc = "done" /\ toolErr = Nil) =>
             /\ Len(ran) = 4
             /\ \A i \in DOMAIN ran : ran[i].ok

C26_Witness ==
    /\ tool = "terraform check"
    /\ pathFlag = <<"infra">>
    /\ gpc = "done"
    /\ toolErr = ExitError
    /\ ran = <<[argv |-> <<"terraform", "fmt", <<"infra">>>>, ok |-> TRUE],
               [argv |-> <<"terraform", "validate", <<"infra">>>>, ok |-> TRUE],
               [argv |-> <<"tflint", <<"infra">>>>, ok |-> FALSE]>>

(***************************************************************************)
(* Properties of the setup command, checked under SpecSetup.               *)
(***************************************************************************)
\* y or yes, in any case
YesAnswers ==
    {<<a>> : a \in {"y", "Y"}}
    \cup {<<a, b, d>> : a \in {"y", "Y"}, b \in {"e", "E"}, d \in {"s", "S"}}

\* the user answered the question q with y or yes
SaysYes(q) == q.err = Nil /\ TrimSpace(q.response) \in YesAnswers

\* the confirmation of a category was asked and answered with yes, or otherwise
Confirmed(category) ==
    \E i \in DOMAIN asked : asked[i].category = category /\ SaysYes(asked[i])
Declined(category) ==
    \E i \in DOMAIN asked : asked[i].category = category /\ ~SaysYes(asked[i])

\* the category a change belongs to: an installation is a migration when
\* the package was found installed by hand, an install otherwise
CategoryOf(e) ==
    CASE e.action = "install homebrew" -> "homebrew"
      [] e.action = "upgrade" -> "upgrades"
      [] e.action = "remove" -> "migrations"
      [] e.action = "install" ->
            IF \E i \in DOMAIN packageInfos :
                  packageInfos[i].Name = e.pkg /\ packageInfos[i].NeedsMigration
            THEN "migrations" ELSE "installs"

\* the changes made in this step were confirmed before it
ConfirmedBefore ==
    \A i \in (Len(executed) + 1)..Len(executed') : Confirmed(CategoryOf(executed'[i]))

====
